---- MODULE Spec2Model ----
(***************************************************************************)
(* A model of the WEBSCRAPER content pipeline: the scraper's fetching and   *)
(* cleaning and its Sector Scorer (scraper.py), the two content processors *)
(* (processor.py and processor_llm.py: process_content, _enhance_category, *)
(* batch_process), the optional LLM Cleaner (llm_cleaner.py), the draft    *)
(* generator (generator.py) and the Draft Store (queue_manager.py).        *)
(*                                                                         *)
(* Python values are represented as follows.  A str is a TLA+ string and   *)
(* is taken apart character by character with Len and SubSeq.  A dict is a *)
(* function whose domain is the set of keys present.  A list is a          *)
(* sequence.  None is the string PyNone, which no text of the model        *)
(* contains.  A float score is an integer number of hundredths.            *)
(***************************************************************************)
EXTENDS Integers, Sequences, FiniteSets, TLC

(***************************************************************************)
(* Characters and the str methods the pipeline uses.                       *)
(***************************************************************************)
LowerChars ==
    {"a","b","c","d","e","f","g","h","i","j","k","l","m",
     "n","o","p","q","r","s","t","u","v","w","x","y","z"}

UpperChars ==
    {"A","B","C","D","E","F","G","H","I","J","K","L","M",
     "N","O","P","Q","R","S","T","U","V","W","X","Y","Z"}

DigitChars == {"0","1","2","3","4","5","6","7","8","9"}

SpaceChars == {" ", "\t", "\n", "\r"}

AlnumChars == LowerChars \cup UpperChars \cup DigitChars

\* The characters the regular expression class \w matches (ASCII part).
WordChars == AlnumChars \cup {"_"}

PyNone == "<None>"

CharAt(s, i) == SubSeq(s, i, i)

LowerChar(c) ==
    CASE c = "A" -> "a" [] c = "B" -> "b" [] c = "C" -> "c" [] c = "D" -> "d"
      [] c = "E" -> "e" [] c = "F" -> "f" [] c = "G" -> "g" [] c = "H" -> "h"
      [] c = "I" -> "i" [] c = "J" -> "j" [] c = "K" -> "k" [] c = "L" -> "l"
      [] c = "M" -> "m" [] c = "N" -> "n" [] c = "O" -> "o" [] c = "P" -> "p"
      [] c = "Q" -> "q" [] c = "R" -> "r" [] c = "S" -> "s" [] c = "T" -> "t"
      [] c = "U" -> "u" [] c = "V" -> "v" [] c = "W" -> "w" [] c = "X" -> "x"
      [] c = "Y" -> "y" [] c = "Z" -> "z" [] OTHER -> c

RECURSIVE LowerRange(_, _, _)
\* The characters a..b of s, each lowered (the range is halved at each step,
\* and a range without capitals is taken as it is).
LowerRange(s, a, b) ==
    IF a > b THEN ""
    ELSE IF \A i \in a..b : CharAt(s, i) \notin UpperChars THEN SubSeq(s, a, b)
    ELSE IF a = b THEN LowerChar(CharAt(s, a))
    ELSE LET m == (a + b) \div 2
         IN  LowerRange(s, a, m) \o LowerRange(s, m + 1, b)

\* str.lower()
Lower(s) == LowerRange(s, 1, Len(s))

\* str.isalnum(): every character is alphanumeric and there is at least one.
IsAlnum(s) == Len(s) > 0 /\ \A i \in 1..Len(s) : CharAt(s, i) \in AlnumChars

\* The first position from i on that holds no white space (Len(s) + 1 if none).
FirstNonSpace(s, i) ==
    LET here == {j \in i..Len(s) : CharAt(s, j) \notin SpaceChars}
    IN  IF here = {} THEN Len(s) + 1
        ELSE CHOOSE j \in here : \A k \in here : j <= k

\* The last position up to i that holds no white space (0 if none).
LastNonSpace(s, i) ==
    LET here == {j \in 1..i : CharAt(s, j) \notin SpaceChars}
    IN  IF here = {} THEN 0
        ELSE CHOOSE j \in here : \A k \in here : k <= j

\* str.strip()
Strip(s) ==
    LET a == FirstNonSpace(s, 1)
        b == LastNonSpace(s, Len(s))
    IN  IF a > b THEN "" ELSE SubSeq(s, a, b)

\* sub in s, for strings
Contains(sub, s) ==
    \E i \in 1..(Len(s) - Len(sub) + 1) : SubSeq(s, i, i + Len(sub) - 1) = sub

RECURSIVE Join(_, _)
\* sep.join(xs)
Join(sep, xs) ==
    IF xs = <<>> THEN ""
    ELSE IF Len(xs) = 1 THEN xs[1]
    ELSE xs[1] \o sep \o Join(sep, Tail(xs))

(***************************************************************************)
(* dict helpers.                                                           *)
(***************************************************************************)
\* d.get(k, default)
Get(d, k, default) == IF k \in DOMAIN d THEN d[k] ELSE default

\* d.update(e)
Update(d, e) ==
    [k \in DOMAIN d \cup DOMAIN e |-> IF k \in DOMAIN e THEN e[k] ELSE d[k]]

(***************************************************************************)
(* NLTK, as the processors use it.  word_tokenize is modelled as the       *)
(* Treebank tokenizer behaves on plain prose: white space separates        *)
(* tokens, the marks , ! ? ; : ( ) " are tokens of their own, and a period *)
(* is a token of its own when white space, another mark or the end of the  *)
(* text follows it (a period inside "4.0" stays in its token).             *)
(* sent_tokenize is modelled as Punkt behaves on such prose: a sentence    *)
(* ends at . ! or ? followed by white space or by the end of the text.     *)
(* The lemmatizer is WordNet's noun lemmatizer, given as its table on the  *)
(* plural forms the model's vocabulary holds.                              *)
(***************************************************************************)
MarkChars == {",", "!", "?", ";", ":", "(", ")", "\""}

SentenceEndChars == {".", "!", "?"}

IsSplitAt(s, i) ==
    LET c == CharAt(s, i)
    IN  \/ c \in MarkChars
        \/ /\ c = "."
           /\ \/ i = Len(s)
              \/ CharAt(s, i + 1) \in SpaceChars \cup MarkChars \cup {"."}

RECURSIVE RunEnd(_, _)
\* The last position of the run of characters without white space and
\* without a split mark that begins at i.
RunEnd(s, i) ==
    IF i + 1 > Len(s) \/ CharAt(s, i + 1) \in SpaceChars \/ IsSplitAt(s, i + 1)
    THEN i
    ELSE RunEnd(s, i + 1)

RECURSIVE TokenScan(_, _)
TokenScan(s, i) ==
    LET a == FirstNonSpace(s, i)
    IN  IF a > Len(s) THEN <<>>
        ELSE IF IsSplitAt(s, a) THEN <<CharAt(s, a)>> \o TokenScan(s, a + 1)
        ELSE LET e == RunEnd(s, a)
             IN  <<SubSeq(s, a, e)>> \o TokenScan(s, e + 1)

word_tokenize(s) == TokenScan(s, 1)

IsSentenceEnd(s, i) ==
    /\ CharAt(s, i) \in SentenceEndChars
    /\ i = Len(s) \/ CharAt(s, i + 1) \in SpaceChars

RECURSIVE SentenceScan(_, _)
SentenceScan(s, start) ==
    LET ends == {i \in start..Len(s) : IsSentenceEnd(s, i)}
        stop == IF ends = {} THEN Len(s)
                ELSE CHOOSE i \in ends : \A k \in ends : i <= k
        piece == Strip(SubSeq(s, start, stop))
    IN  IF start > Len(s) THEN <<>>
        ELSE (IF piece = "" THEN <<>> ELSE <<piece>>) \o SentenceScan(s, stop + 1)

sent_tokenize(s) == SentenceScan(s, 1)

lemmatize(w) ==
    CASE w = "vehicles"  -> "vehicle"
      [] w = "batteries" -> "battery"
      [] w = "policies"  -> "policy"
      [] w = "startups"  -> "startup"
      [] w = "cars"      -> "car"
      [] w = "supports"  -> "support"
      [] w = "bans"      -> "ban"
      [] w = "issues"    -> "issue"
      [] w = "needs"     -> "need"
      [] OTHER -> w

\* stopwords.words('english')
stop_words ==
    {"i","me","my","myself","we","our","ours","ourselves","you","your","yours",
     "yourself","yourselves","he","him","his","himself","she","her","hers",
     "herself","it","its","itself","they","them","their","theirs","themselves",
     "what","which","who","whom","this","that","these","those","am","is","are",
     "was","were","be","been","being","have","has","had","having","do","does",
     "did","doing","a","an","the","and","but","if","or","because","as","until",
     "while","of","at","by","for","with","about","against","between","into",
     "through","during","before","after","above","below","to","from","up",
     "down","in","out","on","off","over","under","again","further","then",
     "once","here","there","when","where","why","how","all","any","both",
     "each","few","more","most","other","some","such","no","nor","not","only",
     "own","same","so","than","too","very","s","t","can","will","just","don",
     "should","now"}

(***************************************************************************)
(* collections.Counter(xs).most_common(n): the distinct elements of xs by  *)
(* descending count; elements of equal count keep the order in which they  *)
(* were first met.                                                         *)
(***************************************************************************)
RECURSIVE Distinct(_)
Distinct(xs) ==
    IF xs = <<>> THEN <<>>
    ELSE LET d == Distinct(SubSeq(xs, 1, Len(xs) - 1))
             x == xs[Len(xs)]
         IN  IF \E i \in 1..Len(d) : d[i] = x THEN d ELSE Append(d, x)

Count(xs, x) == Cardinality({i \in 1..Len(xs) : xs[i] = x})

RECURSIVE Counts(_, _)
\* The count of each key, in the order of keys.
Counts(xs, keys) ==
    IF keys = <<>> THEN <<>>
    ELSE <<Count(xs, keys[1])>> \o Counts(xs, Tail(keys))

\* How many keys come before key i in the ranking: those of greater count,
\* and those of equal count met earlier (the sort is stable).
Before(counts, i) ==
    Cardinality({j \in 1..Len(counts) :
                    counts[j] > counts[i] \/ (counts[j] = counts[i] /\ j < i)})

RECURSIVE Places(_, _)
Places(counts, i) ==
    IF i > Len(counts) THEN <<>>
    ELSE <<Before(counts, i) + 1>> \o Places(counts, i + 1)

RECURSIVE Ranked(_, _, _, _)
Ranked(keys, places, k, n) ==
    IF k > n \/ k > Len(keys) THEN <<>>
    ELSE <<keys[CHOOSE i \in 1..Len(keys) : places[i] = k]>> \o Ranked(keys, places, k + 1, n)

most_common(xs, n) ==
    LET keys == Distinct(xs)
        places == Places(Counts(xs, keys), 1)
    IN  Ranked(keys, places, 1, n)

(***************************************************************************)
(* Sector Scorer: WebScraper.categorize_content.                           *)
(***************************************************************************)
\* The sectors dict, in its declared (insertion) order.
sectors ==
    << [name |-> "e-mobility",
        keywords |-> <<"electric vehicle", "ev", "battery", "charging station",
                       "autonomous driving", "sustainable mobility", "green energy",
                       "renewable transport", "electric car", "lithium-ion",
                       "vehicle electrification", "smart mobility", "e-mobility">>],
       [name |-> "manufacturing",
        keywords |-> <<"manufacturing", "supply chain", "automation", "industry 4.0",
                       "robotics", "production line", "factory automation",
                       "industrial iot", "smart manufacturing", "lean manufacturing",
                       "quality control", "production efficiency">>],
       [name |-> "politics-governance",
        keywords |-> <<"government", "policy", "regulation", "election", "legislation",
                       "parliament", "political", "governance", "public sector",
                       "democracy", "constitution", "minister", "president", "law",
                       "bill", "senate">>],
       [name |-> "artificial intelligence & machine learning",
        keywords |-> <<"artificial intelligence", "machine learning", "deep learning",
                       "neural network", "data science", "ai model", "computer vision",
                       "natural language processing", "predictive analytics",
                       "algorithm", "automation ai">>],
       [name |-> "startup & innovation",
        keywords |-> <<"startup", "innovation", "venture capital", "tech startup",
                       "business model", "entrepreneurship", "funding round",
                       "pitch deck", "scalability", "disruption">>] >>

IsWordAt(s, i) == i >= 1 /\ i <= Len(s) /\ CharAt(s, i) \in WordChars

\* The regular expression \b between character i and character i + 1 of s.
WordBoundary(s, i) == IsWordAt(s, i) # IsWordAt(s, i + 1)

\* r'\b' + re.escape(keyword) + r'\b' matches s at position p.
MatchAt(keyword, s, p) ==
    /\ p + Len(keyword) - 1 <= Len(s)
    /\ SubSeq(s, p, p + Len(keyword) - 1) = keyword
    /\ WordBoundary(s, p - 1)
    /\ WordBoundary(s, p + Len(keyword) - 1)

\* The positions of s at which \b holds just before the character: the
\* positions where a word begins (starts) and those just behind a word (ends).
Boundaries(s) ==
    [starts |-> {p \in 1..Len(s) : IsWordAt(s, p) /\ ~IsWordAt(s, p - 1)},
     ends   |-> {p \in 2..(Len(s) + 1) : ~IsWordAt(s, p) /\ IsWordAt(s, p - 1)}]

\* Where a match of the keyword can begin: after the opening \b comes the
\* keyword's first character, so the place is a word's start when that
\* character is a word character and a word's end when it is not.
Candidates(keyword, bounds) ==
    IF CharAt(keyword, 1) \in WordChars THEN bounds.starts ELSE bounds.ends

RECURSIVE FindAllFrom(_, _, _, _)
\* The scan takes the leftmost match from p on and goes on behind it.
FindAllFrom(keyword, s, bounds, p) ==
    LET hits == {q \in Candidates(keyword, bounds) : q >= p /\ MatchAt(keyword, s, q)}
    IN  IF hits = {} THEN 0
        ELSE LET q == CHOOSE h \in hits : \A k \in hits : h <= k
             IN  1 + FindAllFrom(keyword, s, bounds, q + Len(keyword))

\* len(re.findall(r'\b' + re.escape(keyword) + r'\b', s)): the matches are
\* found left to right and do not overlap.
CountMatches(keyword, s, bounds) == FindAllFrom(keyword, s, bounds, 1)

RECURSIVE SectorScore(_, _, _)
SectorScore(keywords, full_text, bounds) ==
    IF keywords = <<>> THEN 0
    ELSE CountMatches(keywords[1], full_text, bounds)
         + SectorScore(Tail(keywords), full_text, bounds)

FullText(content_dict) ==
    Lower(content_dict["content"]) \o " " \o Lower(Get(content_dict, "title", ""))

\* scores, as the sequence of the sectors' scores in the order of sectors.
SectorScores(content_dict) ==
    LET full_text == FullText(content_dict)
        bounds == Boundaries(full_text)
    IN  [i \in 1..Len(sectors) |-> SectorScore(sectors[i].keywords, full_text, bounds)]

MaxOf(scores) ==
    IF scores = <<>> THEN 0
    ELSE CHOOSE m \in {scores[i] : i \in 1..Len(scores)} :
            \A i \in 1..Len(scores) : scores[i] <= m

TopSectors(scores) ==
    LET idx == [i \in 1..Len(scores) |-> i]
        top(i) == scores[i] = MaxOf(scores)
        hits == SelectSeq(idx, top)
    IN  [k \in 1..Len(hits) |-> sectors[hits[k]].name]

\* A faulty variant: a sector is assigned only from two matches on.
AssignSector_NeedsTwo(scores) ==
    LET max_score == MaxOf(scores)
        top_sectors == TopSectors(scores)
    IN  IF max_score >= 2 THEN top_sectors[1] ELSE "general"

\* A faulty variant: a tie goes to the last of the tied sectors.
AssignSector_LastTied(scores) ==
    LET max_score == MaxOf(scores)
        top_sectors == TopSectors(scores)
    IN  IF max_score > 0 /\ (Len(top_sectors) = 1 \/ max_score >= 2)
        THEN top_sectors[Len(top_sectors)]
        ELSE "general"

\* A faulty variant: any positive maximum assigns the first of the top sectors.
AssignSector_AnyTie(scores) ==
    LET max_score == MaxOf(scores)
        top_sectors == TopSectors(scores)
    IN  IF max_score > 0 THEN top_sectors[1] ELSE "general"

\* The decision of categorize_content from the scores.
AssignSector(scores) ==
    LET max_score == MaxOf(scores)
        top_sectors == TopSectors(scores)
    IN  IF max_score > 0 /\ (Len(top_sectors) = 1 \/ max_score >= 2)
        THEN top_sectors[1]
        ELSE "general"

\* content_dict['category'] = ...; return content_dict
WithCategory(content_dict, scores) ==
    Update(content_dict, [category |-> AssignSector(scores)])

categorize_content(content_dict) ==
    WithCategory(content_dict, SectorScores(content_dict))

(***************************************************************************)
(* The cleaning chain of scraper.py.  Text Normalizer:                     *)
(* WebScraper._basic_text_cleaning.                                        *)
(***************************************************************************)
\* The least element of a non-empty set of positions.
Least(S) == CHOOSE j \in S : \A k \in S : j <= k

RECURSIVE WordEnd(_, _)
\* The last position of the run without white space that begins at i.
WordEnd(s, i) ==
    IF i + 1 > Len(s) \/ CharAt(s, i + 1) \in SpaceChars THEN i
    ELSE WordEnd(s, i + 1)

RECURSIVE SplitScan(_, _)
SplitScan(s, i) ==
    LET a == FirstNonSpace(s, i)
        e == WordEnd(s, a)
    IN  IF a > Len(s) THEN <<>>
        ELSE <<SubSeq(s, a, e)>> \o SplitScan(s, e + 1)

\* str.split() without arguments
split(s) == SplitScan(s, 1)

\* ' '.join(content.split())
CollapseSpaces(s) == Join(" ", split(s))

\* The first position from i on at which sub occurs in s (0 if none).
Find(sub, s, i) ==
    LET here == {p \in i..(Len(s) - Len(sub) + 1) : SubSeq(s, p, p + Len(sub) - 1) = sub}
    IN  IF here = {} THEN 0 ELSE Least(here)

RECURSIVE Replace(_, _, _)
\* str.replace(old, new), old not empty
Replace(s, old, new) ==
    LET p == Find(old, s, 1)
    IN  IF s = "" \/ p = 0 THEN s
        ELSE SubSeq(s, 1, p - 1) \o new
             \o Replace(SubSeq(s, p + Len(old), Len(s)), old, new)

RECURSIVE SameRunEnd(_, _)
\* The last position of the run of equal characters that begins at i.
SameRunEnd(s, i) ==
    IF i + 1 > Len(s) \/ CharAt(s, i + 1) # CharAt(s, i) THEN i
    ELSE SameRunEnd(s, i + 1)

RECURSIVE SubRuns(_, _, _, _)
\* re.sub(c{least,}, repl, s) for a single character c
SubRuns(s, c, least, repl) ==
    LET starts == {p \in 1..Len(s) :
                      /\ CharAt(s, p) = c
                      /\ p = 1 \/ CharAt(s, p - 1) # c
                      /\ SameRunEnd(s, p) - p + 1 >= least}
        p == Least(starts)
    IN  IF s = "" \/ starts = {} THEN s
        ELSE SubSeq(s, 1, p - 1) \o repl
             \o SubRuns(SubSeq(s, SameRunEnd(s, p) + 1, Len(s)), c, least, repl)

\* The literals of the two replace() lines as Python reads them.  Both
\* arguments of the first line's calls are the double quote.  On the second
\* line three apostrophes open a triple-quoted string that runs up to the
\* next three, so the line is one call that replaces that string by an
\* apostrophe.
QuoteLiteral == "\""

ApostropheLiteral == ", \"'\").replace("

basic_text_cleaning(content) ==
    LET spaced == CollapseSpaces(content)
        quoted == Replace(Replace(spaced, QuoteLiteral, "\""), QuoteLiteral, "\"")
        apostrophed == Replace(quoted, ApostropheLiteral, "'")
        dots == SubRuns(apostrophed, ".", 3, "...")
        bangs == SubRuns(dots, "!", 2, "!")
    IN  SubRuns(bangs, "?", 2, "?")

(***************************************************************************)
(* Noise Filter: WebScraper._remove_irrelevant_content.  A pattern of the  *)
(* irrelevant_patterns list is \b, one of the words of `first', then for   *)
(* each word of `rest' \s+ and the word, then \s+\d{digits} when digits is *)
(* positive, then \b when `closed'.  It is matched against the lowered     *)
(* text (re.IGNORECASE).  The URL, e-mail and phone expressions are        *)
(* matched as written, with the regular expression engine's preference for *)
(* the longest repetition that still lets the rest match.                  *)
(***************************************************************************)
Phrase(first, rest, digits, closed) ==
    [kind |-> "phrase", first |-> first, rest |-> rest, digits |-> digits,
     closed |-> closed]

irrelevant_patterns ==
    << Phrase(<<"menu", "navigation", "nav", "header", "footer", "sidebar",
                "advertisement", "ad", "banner">>, <<>>, 0, TRUE),
       Phrase(<<"copyright">>, <<>>, 4, FALSE),
       Phrase(<<"privacy">>, <<"policy">>, 0, TRUE),
       Phrase(<<"terms">>, <<"of", "service">>, 0, TRUE),
       Phrase(<<"contact">>, <<"us">>, 0, TRUE),
       Phrase(<<"about">>, <<"us">>, 0, TRUE),
       Phrase(<<"sign">>, <<"in">>, 0, TRUE),
       Phrase(<<"log">>, <<"in">>, 0, TRUE),
       Phrase(<<"sign">>, <<"up">>, 0, TRUE),
       Phrase(<<"register">>, <<>>, 0, TRUE),
       Phrase(<<"newsletter">>, <<>>, 0, TRUE),
       Phrase(<<"subscribe">>, <<>>, 0, TRUE) >>

address_patterns == << [kind |-> "url"], [kind |-> "email"] >>

phone_patterns == << [kind |-> "phone"] >>

RECURSIVE ClassRunEnd(_, _, _)
\* The last position of the run of characters of class that begins at i
\* (i - 1 when the character at i is not of the class).
ClassRunEnd(s, i, class) ==
    IF i > Len(s) \/ CharAt(s, i) \notin class THEN i - 1
    ELSE ClassRunEnd(s, i + 1, class)

\* word occurs in s at position p
WordAt(word, s, p) ==
    p >= 1 /\ p + Len(word) - 1 <= Len(s) /\ SubSeq(s, p, p + Len(word) - 1) = word

RECURSIVE RestEnd(_, _, _)
\* The last position of \s+word for each of words, from behind position q
\* (0 if they do not match).
RestEnd(words, s, q) ==
    IF words = <<>> THEN q
    ELSE LET a == FirstNonSpace(s, q + 1)
         IN  IF a > q + 1 /\ WordAt(words[1], s, a)
             THEN RestEnd(Tail(words), s, a + Len(words[1]) - 1)
             ELSE 0

\* The last position of \s+\d{digits} from behind position q (0 if no match).
DigitsEnd(digits, s, q) ==
    IF digits = 0 THEN q
    ELSE LET a == FirstNonSpace(s, q + 1)
         IN  IF /\ a > q + 1
                /\ a + digits - 1 <= Len(s)
                /\ \A i \in a..(a + digits - 1) : CharAt(s, i) \in DigitChars
             THEN a + digits - 1
             ELSE 0

\* The last position of the match that begins with alternative k at p.
AlternativeEnd(pat, k, low, p) ==
    IF ~WordAt(pat.first[k], low, p) THEN 0
    ELSE LET q == RestEnd(pat.rest, low, p + Len(pat.first[k]) - 1)
             e == IF q = 0 THEN 0 ELSE DigitsEnd(pat.digits, low, q)
         IN  IF e > 0 /\ (pat.closed => WordBoundary(low, e)) THEN e ELSE 0

\* A faulty variant: the opening \b is not tested.
PhraseEnd_NoOpeningBoundary(pat, low, p) ==
    LET fits == {k \in 1..Len(pat.first) : AlternativeEnd(pat, k, low, p) > 0}
    IN  IF fits = {} THEN 0 ELSE AlternativeEnd(pat, Least(fits), low, p)

\* The alternatives are tried in the order written.
PhraseEnd(pat, low, p) ==
    IF ~WordBoundary(low, p - 1) THEN 0
    ELSE LET fits == {k \in 1..Len(pat.first) : AlternativeEnd(pat, k, low, p) > 0}
         IN  IF fits = {} THEN 0 ELSE AlternativeEnd(pat, Least(fits), low, p)

\* [$-_@.&+]: the range from $ to _ holds the digits, the capitals and the
\* marks between them; with the letters, the digits and [!*\\(\\),].
UrlChars ==
    AlnumChars \cup
    {"$", "%", "&", "'", "(", ")", "*", "+", ",", "-", ".", "/", ":", ";", "<",
     "=", ">", "?", "@", "[", "\\", "]", "^", "_", "!"}

\* http[s]?://(?:...)+
UrlEnd(s, p) ==
    LET q == IF WordAt("http://", s, p) THEN p + 7
             ELSE IF WordAt("https://", s, p) THEN p + 8
             ELSE 0
        e == ClassRunEnd(s, q, UrlChars)
    IN  IF q > 0 /\ e >= q THEN e ELSE 0

LocalChars == AlnumChars \cup {".", "_", "%", "+", "-"}

DomainChars == AlnumChars \cup {".", "-"}

\* [A-Z|a-z]
TldChars == LowerChars \cup UpperChars \cup {"|"}

\* \b[A-Za-z0-9._%+-]+@[A-Za-z0-9.-]+\.[A-Z|a-z]{2,}\b
EmailEnd(s, p) ==
    LET at == ClassRunEnd(s, p, LocalChars) + 1
        domain_end == ClassRunEnd(s, at + 1, DomainChars)
        Ends(d) == {e \in (d + 2)..ClassRunEnd(s, d + 1, TldChars) : WordBoundary(s, e)}
        dots == {d \in (at + 2)..domain_end : CharAt(s, d) = "." /\ Ends(d) # {}}
        dot == CHOOSE d \in dots : \A k \in dots : k <= d
    IN  IF /\ WordBoundary(s, p - 1)
           /\ at > p
           /\ WordAt("@", s, at)
           /\ dots # {}
        THEN CHOOSE e \in Ends(dot) : \A k \in Ends(dot) : k <= e
        ELSE 0

\* The position behind an optional [-.] at q.
SkipSeparator(s, q) == IF q <= Len(s) /\ CharAt(s, q) \in {"-", "."} THEN q + 1 ELSE q

AllDigits(s, a, b) == b <= Len(s) /\ \A i \in a..b : CharAt(s, i) \in DigitChars

\* \b\d{3}[-.]?\d{3}[-.]?\d{4}\b
PhoneEnd(s, p) ==
    LET q == SkipSeparator(s, p + 3)
        r == SkipSeparator(s, q + 3)
    IN  IF /\ WordBoundary(s, p - 1)
           /\ AllDigits(s, p, p + 2)
           /\ AllDigits(s, q, q + 2)
           /\ AllDigits(s, r, r + 3)
           /\ WordBoundary(s, r + 3)
        THEN r + 3
        ELSE 0

\* The last position of the match of pat that begins at p (0 if none).
MatchEnd(pat, s, low, p) ==
    CASE pat.kind = "phrase" -> PhraseEnd(pat, low, p)
      [] pat.kind = "url"    -> UrlEnd(s, p)
      [] pat.kind = "email"  -> EmailEnd(s, p)
      [] pat.kind = "phone"  -> PhoneEnd(s, p)

RECURSIVE SubFrom(_, _, _, _)
\* s from position i on, with the matches of pat taken out: the leftmost
\* match first, then on behind it.
SubFrom(pat, s, low, i) ==
    LET hits == {p \in i..Len(s) : MatchEnd(pat, s, low, p) > 0}
    IN  IF hits = {} THEN SubSeq(s, i, Len(s))
        ELSE LET p == Least(hits)
             IN  SubSeq(s, i, p - 1) \o SubFrom(pat, s, low, MatchEnd(pat, s, low, p) + 1)

\* re.sub(pattern, '', s)
Sub(pat, s) == SubFrom(pat, s, Lower(s), 1)

RECURSIVE SubEach(_, _)
\* for pattern in patterns: content = re.sub(pattern, '', content)
SubEach(patterns, s) ==
    IF s = "" \/ patterns = <<>> THEN s
    ELSE SubEach(Tail(patterns), Sub(patterns[1], s))

remove_irrelevant_content(content) ==
    CollapseSpaces(
        SubEach(phone_patterns,
            SubEach(address_patterns,
                SubEach(irrelevant_patterns, content))))

(***************************************************************************)
(* Coherence Filter: WebScraper._grammar_and_coherence_filter and          *)
(* _is_grammatical_sentence.  What NLTK has installed is the environment's *)
(* choice nltk_fault: "none", "punkt" (sent_tokenize and word_tokenize     *)
(* raise LookupError) or "tagger" (pos_tag raises LookupError; scraper.py  *)
(* downloads punkt, stopwords and wordnet, not the tagger).  A filter's    *)
(* result is [text, raised].  pos_tag is given as the tagger's table on    *)
(* the model's vocabulary.                                                 *)
(***************************************************************************)
NltkFaults == {"none", "punkt", "tagger"}

MinSentenceLen == 10

MaxSentenceLen == 500

MinUniqueLen == 10

Got(text) == [text |-> text, raised |-> "none"]

Raised(exception) == [text |-> PyNone, raised |-> exception]

VerbForms ==
    [word \in {"is", "are", "was", "has", "supports", "needs", "falling", "call",
               "grow", "grows", "sleep", "read", "announced", "said", "raised"}
        |-> CASE word \in {"is", "has", "supports", "needs", "grows"} -> "VBZ"
              [] word \in {"are", "grow", "sleep", "read"} -> "VBP"
              [] word \in {"was", "announced", "said", "raised"} -> "VBD"
              [] word = "falling" -> "VBG"
              [] word = "call" -> "VB"]

OtherForms ==
    [word \in {"the", "a", "an", "our", "all", "new", "good", "bad", "electric",
               "green", "at", "of", "in", "for", "and", "now", "today", "fast",
               "long", "nice", ".", ",", "!", "?"}
        |-> CASE word \in {"the", "a", "an", "all"} -> "DT"
              [] word = "our" -> "PRP$"
              [] word \in {"new", "good", "bad", "electric", "green", "long", "nice"} -> "JJ"
              [] word \in {"at", "of", "in", "for"} -> "IN"
              [] word = "and" -> "CC"
              [] word \in {"now", "fast"} -> "RB"
              [] word = "today" -> "NN"
              [] word \in {".", "!", "?"} -> "."
              [] word = "," -> ","]

\* The tag of one token; a word the tables do not hold is tagged a noun.
TagOf(word) ==
    IF word \in DOMAIN VerbForms THEN VerbForms[word]
    ELSE IF word \in DOMAIN OtherForms THEN OtherForms[word]
    ELSE IF \A i \in 1..Len(word) : CharAt(word, i) \in DigitChars \cup {"-", "."} THEN "CD"
    ELSE "NN"

RECURSIVE pos_tag(_)
\* nltk.pos_tag(words): a list of (word, tag) tuples.
pos_tag(words) ==
    IF words = <<>> THEN <<>>
    ELSE << <<words[1], TagOf(words[1])>> >> \o pos_tag(Tail(words))

\* The attributes hasattr() finds on a tuple: its methods, no pos_.
TupleAttributes == {"count", "index"}

StartsWith(s, prefix) == WordAt(prefix, s, 1)

EndsWith(s, suffix) == WordAt(suffix, s, Len(s) - Len(suffix) + 1)

\* The sentence passes the length tests, so the method goes on to NLTK.
Admissible(sentence) ==
    Len(sentence) >= MinSentenceLen /\ Len(sentence) <= MaxSentenceLen

\* What _is_grammatical_sentence returns when NLTK raises nothing.
is_grammatical_sentence(sentence) ==
    IF ~Admissible(sentence) THEN FALSE
    ELSE LET words == word_tokenize(Lower(sentence))
             tagged == pos_tag(words)
             has_noun == \E i \in 1..Len(tagged) :
                            "pos_" \in TupleAttributes /\ tagged[i][2] = "NOUN"
             has_verb == \E i \in 1..Len(tagged) : StartsWith(tagged[i][2], "VB")
         IN  words # <<>> /\ has_noun /\ has_verb

RECURSIVE SplitOnFrom(_, _, _)
SplitOnFrom(s, sep, i) ==
    LET p == Find(sep, s, i)
    IN  IF p = 0 THEN <<SubSeq(s, i, Len(s))>>
        ELSE <<SubSeq(s, i, p - 1)>> \o SplitOnFrom(s, sep, p + Len(sep))

\* str.split(sep)
SplitOn(s, sep) == SplitOnFrom(s, sep, 1)

RECURSIVE Stripped(_)
Stripped(sentences) ==
    IF sentences = <<>> THEN <<>>
    ELSE <<Strip(sentences[1])>> \o Stripped(Tail(sentences))

\* '. '.join(sentences), and a period behind it unless it has one or is empty
JoinSentences(sentences) ==
    LET content == Join(". ", sentences)
    IN  IF content # "" /\ ~EndsWith(content, ".") THEN content \o "." ELSE content

grammar_and_coherence_filter(content, nltk_fault) ==
    IF content = "" THEN Got("")
    ELSE LET sentences == Stripped(IF nltk_fault = "punkt" THEN SplitOn(content, ".")
                                   ELSE sent_tokenize(content))
         IN  IF /\ nltk_fault # "none"
                /\ \E i \in 1..Len(sentences) : Admissible(sentences[i])
             THEN Raised("LookupError")
             ELSE Got(JoinSentences(SelectSeq(sentences, is_grammatical_sentence)))

(***************************************************************************)
(* Sector Context Filter: WebScraper._sector_context_filter.               *)
(***************************************************************************)
sector_contexts ==
    << [name |-> "e-mobility",
        keywords |-> <<"electric", "vehicle", "battery", "charging", "sustainable",
                       "mobility", "green", "energy", "transport", "autonomous">>],
       [name |-> "manufacturing",
        keywords |-> <<"manufacture", "production", "supply", "chain", "automation",
                       "robotics", "factory", "industry", "efficiency">>],
       [name |-> "politics-governance",
        keywords |-> <<"government", "policy", "regulation", "election", "legislation",
                       "political", "governance", "law", "minister">>],
       [name |-> "artificial intelligence & machine learning",
        keywords |-> <<"artificial", "intelligence", "machine", "learning", "ai",
                       "algorithm", "data", "neural", "deep">>],
       [name |-> "startup & innovation",
        keywords |-> <<"startup", "innovation", "venture", "entrepreneur", "funding",
                       "business", "model", "disruption", "scalability">>] >>

\* sum(1 for keyword in keywords if keyword in full_text)
ContextScore(keywords, full_text) ==
    Cardinality({k \in 1..Len(keywords) : Contains(keywords[k], full_text)})

RECURSIVE ContextScores(_, _)
ContextScores(contexts, full_text) ==
    IF contexts = <<>> THEN <<>>
    ELSE <<ContextScore(contexts[1].keywords, full_text)>>
         \o ContextScores(Tail(contexts), full_text)

\* max(sector_scores, key=sector_scores.get): the first key of the greatest score
BestSector(sector_scores) ==
    Least({i \in 1..Len(sector_scores) :
              \A j \in 1..Len(sector_scores) : sector_scores[j] <= sector_scores[i]})

\* any(keyword in sentence_lower for keyword in keywords)
IsRelevant(sentence, keywords) ==
    LET sentence_lower == Lower(sentence)
    IN  \E k \in 1..Len(keywords) : Contains(keywords[k], sentence_lower)

sector_context_filter(content, title, nltk_fault) ==
    IF content = "" THEN ""
    ELSE LET sector_scores == ContextScores(sector_contexts, Lower(title \o " " \o content))
             best_sector == BestSector(sector_scores)
             keywords == sector_contexts[best_sector].keywords
             relevant(sentence) == IsRelevant(sentence, keywords)
             relevant_sentences == SelectSeq(sent_tokenize(content), relevant)
         IN  IF sector_scores[best_sector] > 0 /\ nltk_fault # "punkt"
                /\ relevant_sentences # <<>>
             THEN LET joined == Join(". ", relevant_sentences)
                  IN  IF EndsWith(joined, ".") THEN joined ELSE joined \o "."
             ELSE content

(***************************************************************************)
(* Deduplicator: WebScraper._final_polish.                                 *)
(***************************************************************************)
RECURSIVE UniqueSentences(_, _)
UniqueSentences(sentences, seen) ==
    IF sentences = <<>> THEN <<>>
    ELSE LET normalized == Strip(Lower(sentences[1]))
         IN  IF normalized \notin seen /\ Len(normalized) > MinUniqueLen
             THEN <<sentences[1]>>
                  \o UniqueSentences(Tail(sentences), seen \cup {normalized})
             ELSE UniqueSentences(Tail(sentences), seen)

final_polish(content, nltk_fault) ==
    IF content = "" THEN ""
    ELSE LET unique == IF nltk_fault = "punkt" THEN content
                       ELSE Join(". ", UniqueSentences(sent_tokenize(content), {}))
             cleaned == CollapseSpaces(unique)
         IN  IF cleaned # "" /\ ~EndsWith(cleaned, ".") THEN cleaned \o "." ELSE cleaned

(***************************************************************************)
(* WebScraper._clean_and_filter_content: the five stages in their order.   *)
(***************************************************************************)
\* The one element of a set of one element.
Only(S) == CHOOSE x \in S : TRUE

clean_and_filter_content(content, title, nltk_fault) ==
    IF content = "" THEN Got("")
    ELSE Only({IF coherent.raised # "none" THEN coherent
               ELSE Got(final_polish(
                            sector_context_filter(coherent.text, title, nltk_fault),
                            nltk_fault)) :
               coherent \in {grammar_and_coherence_filter(
                                 remove_irrelevant_content(basic_text_cleaning(content)),
                                 nltk_fault)}})

(***************************************************************************)
(* The lexical analysis both processors run on the text: Token Pipeline,   *)
(* Keyword Extractor, Theme Extractor (processor.py lines 49-74,           *)
(* processor_llm.py lines 82-107).                                         *)
(***************************************************************************)
TopKeywords == 10

TopThemes == 5

MinWordLen == 2

RECURSIVE Lemmatized(_)
Lemmatized(words) ==
    IF words = <<>> THEN <<>>
    ELSE <<lemmatize(words[1])>> \o Lemmatized(Tail(words))

\* A faulty variant: words of two characters are kept.
FilteredWords_KeepsShort(text) ==
    LET words == SelectSeq(word_tokenize(Lower(text)), IsAlnum)
        kept(word) == word \notin stop_words /\ Len(word) >= MinWordLen
    IN  Lemmatized(SelectSeq(words, kept))

\* filtered_words
FilteredWords(text) ==
    LET words == SelectSeq(word_tokenize(Lower(text)), IsAlnum)
        kept(word) == word \notin stop_words /\ Len(word) > MinWordLen
    IN  Lemmatized(SelectSeq(words, kept))

\* A faulty variant: most_common() without its limit.
Keywords_NoLimit(filtered_words) == most_common(filtered_words, Len(filtered_words))

\* A faulty variant: the words in the order they are first met, counts ignored.
Keywords_FirstSeen(filtered_words) ==
    LET keys == Distinct(filtered_words)
    IN  SubSeq(keys, 1, IF Len(keys) < TopKeywords THEN Len(keys) ELSE TopKeywords)

\* top_keywords
Keywords(filtered_words) == most_common(filtered_words, TopKeywords)

\* words_in_sent for one sentence, and its adjacent pairs
WordsInSent(sentence) ==
    LET kept(w) == IsAlnum(w) /\ w \notin stop_words
    IN  SelectSeq(word_tokenize(Lower(sentence)), kept)

RECURSIVE Bigrams(_)
Bigrams(ws) ==
    IF Len(ws) < 2 THEN <<>>
    ELSE <<ws[1] \o " " \o ws[2]>> \o Bigrams(Tail(ws))

RECURSIVE AllBigrams(_)
AllBigrams(sentences) ==
    IF sentences = <<>> THEN <<>>
    ELSE Bigrams(WordsInSent(sentences[1])) \o AllBigrams(Tail(sentences))

\* A faulty variant: the pairs are taken over the words of the whole text.
Themes_AcrossSentences(text) == most_common(Bigrams(WordsInSent(text)), TopThemes)

\* top_themes
Themes(text) == most_common(AllBigrams(sent_tokenize(text)), TopThemes)

(***************************************************************************)
(* Sentiment Heuristic, with the lexicon of each processor.                *)
(***************************************************************************)
positive_words_plain ==
    {"good", "great", "excellent", "positive", "innovative", "successful", "beneficial"}

negative_words_plain ==
    {"bad", "poor", "negative", "problematic", "challenging", "difficult", "issue"}

positive_words_llm ==
    positive_words_plain \cup {"growth", "advance", "breakthrough"}

negative_words_llm ==
    negative_words_plain \cup {"decline", "crisis", "failure"}

\* A faulty variant: occurrences are counted, not distinct words.
Sentiment_CountsOccurrences(filtered_words, positive_words, negative_words) ==
    LET positive_count ==
            Cardinality({i \in 1..Len(filtered_words) : filtered_words[i] \in positive_words})
        negative_count ==
            Cardinality({i \in 1..Len(filtered_words) : filtered_words[i] \in negative_words})
    IN  IF positive_count > negative_count THEN "positive"
        ELSE IF negative_count > positive_count THEN "negative"
        ELSE "neutral"

Sentiment(filtered_words, positive_words, negative_words) ==
    LET words_set == {filtered_words[i] : i \in 1..Len(filtered_words)}
        positive_count == Cardinality(words_set \cap positive_words)
        negative_count == Cardinality(words_set \cap negative_words)
    IN  IF positive_count > negative_count THEN "positive"
        ELSE IF negative_count > positive_count THEN "negative"
        ELSE "neutral"

(***************************************************************************)
(* Category Refiner: ContentProcessor._enhance_category of each processor. *)
(***************************************************************************)
AnyIn(indicators, keyword_str) == \E ind \in indicators : Contains(ind, keyword_str)

\* A faulty variant: the manufacturing indicators are tested before the e-mobility ones.
enhance_category_plain_Reordered(base_category, keywords) ==
    LET keyword_str == Lower(Join(" ", keywords))
    IN  IF AnyIn({"manufactur", "supply", "automation"}, keyword_str) THEN "manufacturing"
        ELSE IF AnyIn({"electric", "vehicle", "battery"}, keyword_str) THEN "e-mobility"
        ELSE IF AnyIn({"government", "policy", "regulation"}, keyword_str) THEN "politics-governance"
        ELSE base_category

enhance_category_plain(base_category, keywords) ==
    LET keyword_str == Lower(Join(" ", keywords))
    IN  IF AnyIn({"electric", "vehicle", "battery"}, keyword_str) THEN "e-mobility"
        ELSE IF AnyIn({"manufactur", "supply", "automation"}, keyword_str) THEN "manufacturing"
        ELSE IF AnyIn({"government", "policy", "regulation"}, keyword_str) THEN "politics-governance"
        ELSE base_category

enhance_category_llm(base_category, keywords) ==
    LET keyword_str == Lower(Join(" ", keywords))
    IN  IF AnyIn({"electric", "vehicle", "battery"}, keyword_str) THEN "e-mobility"
        ELSE IF AnyIn({"manufactur", "supply", "automation"}, keyword_str) THEN "manufacturing"
        ELSE IF AnyIn({"government", "policy", "regulation"}, keyword_str) THEN "politics-governance"
        ELSE IF AnyIn({"startup", "entrepreneur", "funding"}, keyword_str) THEN "startup & innovation"
        ELSE IF AnyIn({"ai", "artificial", "intelligence"}, keyword_str) THEN "ai & ml"
        ELSE base_category

(***************************************************************************)
(* The Cleaner: LLMCleaner.clean_content.  What the OpenAI request does is *)
(* an input of the model: the request raises (api = "error"), or it        *)
(* returns a message whose content is a string or None.  json.loads is     *)
(* given as its table on the replies of the model.                         *)
(***************************************************************************)
TextReply == "Electric vehicles need batteries."

JsonReply ==
    "{\"cleaned_content\": \"Government policy supports startups.\", \"key_insights\": [\"policy\"], \"relevance_score\": 0.9}"

NullReply == "{\"cleaned_content\": null, \"key_insights\": [], \"relevance_score\": 0.0}"

NoKeyReply == "{\"error\": \"rate limited\"}"

ListReply == "[]"

BlankReply == " "

Responses ==
    {[api |-> "error", content |-> PyNone], [api |-> "ok", content |-> PyNone]}
    \cup {[api |-> "ok", content |-> c] :
            c \in {TextReply, JsonReply, NullReply, NoKeyReply, ListReply, BlankReply}}

\* json.loads(s): decoded tells whether s is JSON at all, is_dict whether the
\* value is an object, value the object.
json_loads(s) ==
    CASE s = JsonReply ->
            [decoded |-> TRUE, is_dict |-> TRUE,
             value |-> [cleaned_content |-> "Government policy supports startups.",
                        key_insights |-> <<"policy">>,
                        relevance_score |-> 90]]
      [] s = NullReply ->
            [decoded |-> TRUE, is_dict |-> TRUE,
             value |-> [cleaned_content |-> PyNone,
                        key_insights |-> <<>>,
                        relevance_score |-> 0]]
      [] s = NoKeyReply ->
            [decoded |-> TRUE, is_dict |-> TRUE, value |-> [error |-> "rate limited"]]
      [] s = ListReply ->
            [decoded |-> TRUE, is_dict |-> FALSE, value |-> <<>>]
      [] OTHER ->
            [decoded |-> FALSE, is_dict |-> FALSE, value |-> <<>>]

DefaultRelevance == 50

\* LLMCleaner._parse_llm_response
parse_llm_response(response) ==
    LET j == json_loads(response)
    IN  IF j.decoded THEN j
        ELSE [decoded |-> TRUE, is_dict |-> TRUE,
              value |-> [cleaned_content |-> response,
                         key_insights |-> <<>>,
                         relevance_score |-> DefaultRelevance]]

\* The except branch of clean_content: fall back to the original content.
CleanerFallback(content_dict, raw_content) ==
    Update(content_dict, [cleaned_content |-> raw_content,
                          key_insights |-> <<>>,
                          relevance_score |-> DefaultRelevance])

clean_content(content_dict, sector, response) ==
    LET raw_content == Get(content_dict, "content", "")
    IN  IF Strip(raw_content) = ""
        THEN Update(content_dict, [cleaned_content |-> "",
                                   key_insights |-> <<>>,
                                   relevance_score |-> 0])
        ELSE IF response.api = "error" \/ response.content = PyNone
        THEN CleanerFallback(content_dict, raw_content)
        ELSE LET cleaned_text == Strip(response.content)
                 parsed_result == parse_llm_response(cleaned_text)
             IN  IF ~parsed_result.is_dict
                 THEN CleanerFallback(content_dict, raw_content)
                 ELSE Update(content_dict,
                        [cleaned_content |-> Get(parsed_result.value, "cleaned_content", cleaned_text),
                         key_insights |-> Get(parsed_result.value, "key_insights", <<>>),
                         relevance_score |-> Get(parsed_result.value, "relevance_score", DefaultRelevance)])

(***************************************************************************)
(* ContentProcessor.process_content of each processor.  The result is the  *)
(* dict as the call leaves it (the call changes it in place), the          *)
(* exception the call ends with ("none" when it returns) and the text the  *)
(* analysis stages ran on.  nltk_fault says that sent_tokenize raises.     *)
(***************************************************************************)
Raise(content_dict, exception, text) ==
    [rec |-> content_dict, raised |-> exception, text |-> text]

Return(content_dict, text) ==
    [rec |-> content_dict, raised |-> "none", text |-> text]

process_content_plain(content_dict, nltk_fault) ==
    IF "content" \notin DOMAIN content_dict THEN Raise(content_dict, "KeyError", PyNone)
    ELSE LET text == content_dict["content"]
         IN  IF nltk_fault THEN Raise(content_dict, "LookupError", text)
             ELSE IF "category" \notin DOMAIN content_dict
                  THEN Raise(content_dict, "KeyError", text)
             ELSE LET filtered_words == FilteredWords(text)
                      top_keywords == Keywords(filtered_words)
                  IN  Return(
                        Update(content_dict,
                               [keywords |-> top_keywords,
                                themes |-> Themes(text),
                                sentiment |-> Sentiment(filtered_words, positive_words_plain,
                                                        negative_words_plain),
                                category |-> enhance_category_plain(content_dict["category"],
                                                                    top_keywords)]),
                        text)

process_content_llm(content_dict, use_llm, response, nltk_fault) ==
    LET cleaned == IF use_llm
                   THEN clean_content(content_dict, Get(content_dict, "category", "general"), response)
                   ELSE content_dict
        text == IF use_llm
                THEN Get(cleaned, "cleaned_content", Get(cleaned, "content", ""))
                ELSE Get(cleaned, "content", "")
    IN  IF text = PyNone THEN Raise(cleaned, "AttributeError", text)
        ELSE IF Strip(text) = ""
             THEN Return(Update(cleaned, [keywords |-> <<>>,
                                          themes |-> <<>>,
                                          sentiment |-> "neutral"]),
                         text)
        ELSE IF nltk_fault THEN Raise(cleaned, "LookupError", text)
        ELSE LET filtered_words == FilteredWords(text)
                 top_keywords == Keywords(filtered_words)
             IN  Return(
                   Update(cleaned,
                          [keywords |-> top_keywords,
                           themes |-> Themes(text),
                           sentiment |-> Sentiment(filtered_words, positive_words_llm,
                                                   negative_words_llm),
                           category |-> enhance_category_llm(Get(cleaned, "category", "general"),
                                                             top_keywords)]),
                   text)

\* Whether process_content sends a request to the LLM: the Cleaner is on and
\* clean_content does not return early on blank content.
CallsLLM(content_dict, use_llm) ==
    use_llm /\ Strip(Get(content_dict, "content", "")) # ""

\* process_content of the processor in use.
process_content(processor, content_dict, use_llm, response, nltk_fault) ==
    IF processor = "plain"
    THEN process_content_plain(content_dict, nltk_fault)
    ELSE process_content_llm(content_dict, use_llm, response, nltk_fault)

(***************************************************************************)
(* ContentProcessor.batch_process (the same code in both processors).      *)
(* env[i] is what the environment does during the call for record i: the   *)
(* LLM response and whether NLTK raises.  The except branch appends        *)
(* content, the very dict process_content was changing in place, so the    *)
(* entry is that dict as the failed call left it.                          *)
(***************************************************************************)
BatchOutcome(processor, content_list, use_llm, env) ==
    [i \in 1..Len(content_list) |->
        process_content(processor, content_list[i], use_llm,
                        env[i].response, env[i].nltk_fault)]

RECURSIVE Survivors(_, _)
Survivors(outcome, i) ==
    IF i > Len(outcome) THEN <<>>
    ELSE (IF outcome[i].raised = "none" THEN <<outcome[i].rec>> ELSE <<>>)
         \o Survivors(outcome, i + 1)

\* A faulty variant: the except branch appends nothing.
batch_process_DropsFailed(processor, content_list, use_llm, env) ==
    Survivors(BatchOutcome(processor, content_list, use_llm, env), 1)

batch_process(processor, content_list, use_llm, env) ==
    LET outcome == BatchOutcome(processor, content_list, use_llm, env)
    IN  [i \in 1..Len(content_list) |-> outcome[i].rec]

(***************************************************************************)
(* Inputs.  A content text is up to MaxSentences sentences of the library  *)
(* joined by single spaces, or white space only.  With the Cleaner on, the *)
(* record is drawn from CleanerTexts and every response is tried on it.    *)
(***************************************************************************)
MaxSentences == 2

MaxBatch == 2

SentenceLibrary ==
    {"Good electric vehicle battery demand is good.",
     "Bad policy supports automation.",
     "The startup needs machine learning.",
     "Ox ant bee cat dog elk fox gnu hen jay owl pig bee."}

BlankText == "  "

RECURSIVE TextsOf(_)
TextsOf(n) ==
    IF n = 0 THEN {""}
    ELSE LET shorter == TextsOf(n - 1)
         IN  shorter \cup SentenceLibrary
                     \cup {t \o " " \o x : t \in shorter \ {""}, x \in SentenceLibrary}

Texts == TextsOf(MaxSentences) \cup {BlankText}

CleanerTexts == {"", BlankText, "The startup needs machine learning."}

Titles == {"No title", "Battery news"}

\* What scrape_url returns: url, title and content, no category yet.
ScrapedRecords(titles, texts) ==
    {[url |-> "https://example.com/a", title |-> t, content |-> c] :
        t \in titles, c \in texts}

\* Records whose title and content meet in the middle of a keyword phrase.
SplitPhraseRecords ==
    ScrapedRecords({"Go electric"}, {"Vehicle sales rise."})
    \cup ScrapedRecords({"Vehicle news"}, {"The grid is electric"})

NoResponse == [api |-> "none", content |-> PyNone]

Processors == {"plain", "llm"}

BatchTexts ==
    {"Electric vehicle battery demand is good.",
     "The startup needs machine learning.",
     ""}

BatchUrls == <<"https://example.com/1", "https://example.com/2", "https://example.com/3",
               "https://example.com/4">>

BatchLists ==
    UNION {[1..n -> BatchTexts] : n \in 0..MaxBatch}

BatchResponses ==
    {[api |-> "error", content |-> PyNone],
     [api |-> "ok", content |-> JsonReply],
     [api |-> "ok", content |-> NullReply]}

(***************************************************************************)
(* State.                                                                  *)
(***************************************************************************)
VARIABLES
    processor,      \* which ContentProcessor is in use: "plain" or "llm"
    use_llm,        \* ContentProcessor.use_llm
    content_dict,   \* the record the single calls work on
    base_category,  \* the category the last process_content began with
    op,             \* the last call made on content_dict
    scores,         \* the scores the last categorize_content computed
    raised,         \* the exception the last process_content ended with
    text,           \* the text the last process_content analysed
    response,       \* the LLM response during the last process_content, if asked for
    content_list,   \* batch: the list handed to batch_process
    original_list,  \* batch: content_list as it was when scraped
    processed,      \* batch: the list batch_process returned
    failed,         \* batch: the positions whose process_content raised
    stage,          \* batch: "scraped", "categorized" or "processed"
    raw,            \* cleaning: the raw text the page gave
    before,         \* cleaning: the text handed to the last stage called
    calls,          \* cleaning: how many stage calls were made
    nltk,           \* cleaning: what NLTK lacked during the last call
    queue,          \* store: QueueManager.queue, the drafts by their place in heap
    heap,           \* store: the draft dicts there are, with the fields they have now
    queue_file,     \* store: what the file at QueueManager.queue_file holds
    added,          \* store: the drafts loaded and added since the queue was last cleared
    returned,       \* store: the drafts get_next_draft returned since then
    next_draft,     \* store: what the last call returned, if it was get_next_draft
    loaded,         \* store: how many drafts __init__ loaded
    save_failed,    \* store: a save has failed
    last_save,      \* store: how the last save of the last call ended
    answer,         \* store: what the last peek_next_draft, queue_size or list_queue returned
    entry,          \* scraping: the function that was called
    urls,           \* scraping: the URLs to scrape
    max_retries,    \* scraping: scrape_url's max_retries
    url_index,      \* scraping: the place in urls of the URL being scraped
    attempt,        \* scraping: scrape_url's loop variable
    fetched,        \* scraping: for each URL, how each of its fetch attempts ended
    scraped,        \* scraping: for each URL, what scrape_url returned
    results,        \* scraping: scrape_multiple_urls' results list
    processed_content_list, \* generator: the records there are to write drafts from
    hash_seed,      \* generator: the hash seed of the process
    last_draft,     \* generator: what the last call returned, if it was generate_draft
    batch_drafts    \* generator: what the last call returned, if it was batch_generate

vars == <<processor, use_llm, content_dict, base_category, op, scores, raised, text,
          response, content_list, original_list, processed, failed, stage,
          raw, before, calls, nltk, queue, heap, queue_file, added, returned,
          next_draft, loaded, save_failed, last_save, answer,
          entry, urls, max_retries, url_index, attempt, fetched, scraped, results,
          processed_content_list, hash_seed, last_draft, batch_drafts>>

recordVars == <<content_dict, base_category, op, scores, raised, text, response>>

batchVars == <<content_list, original_list, processed, failed, stage>>

cleanVars == <<raw, before, calls, nltk>>

queueVars == <<queue, heap, queue_file, added, returned, next_draft, loaded, save_failed, last_save, answer>>

scrapeVars == <<entry, urls, max_retries, url_index, attempt, fetched, scraped, results>>

generatorVars == <<processed_content_list, hash_seed, last_draft, batch_drafts>>

ProcessorInit ==
    /\ processor \in Processors
    /\ use_llm \in BOOLEAN
    /\ processor = "plain" => ~use_llm

RecordIdle ==
    /\ base_category = PyNone
    /\ op = "none"
    /\ scores = <<>>
    /\ raised = "none"
    /\ text = PyNone
    /\ response = NoResponse

BatchIdle ==
    /\ content_list = <<>>
    /\ original_list = <<>>
    /\ processed = <<>>
    /\ failed = {}
    /\ stage = "idle"

CleanIdle ==
    /\ raw = PyNone
    /\ before = PyNone
    /\ calls = 0
    /\ nltk = "none"

QueueIdle ==
    /\ queue = <<>>
    /\ heap = <<>>
    /\ queue_file = [kind |-> "absent", drafts |-> <<>>]
    /\ added = <<>>
    /\ returned = <<>>
    /\ next_draft = 0
    /\ loaded = 0
    /\ save_failed = FALSE
    /\ last_save = "none"
    /\ answer = 0

ScrapeIdle ==
    /\ entry = "none"
    /\ urls = <<>>
    /\ max_retries = 0
    /\ url_index = 1
    /\ attempt = 0
    /\ fetched = <<>>
    /\ scraped = <<>>
    /\ results = <<>>

\* No dict yet.
NoDraftDict ==
    [draft |-> PyNone, hashtags |-> <<>>, character_count |-> 0, cta |-> "", category |-> ""]

GeneratorIdle ==
    /\ processed_content_list = <<>>
    /\ hash_seed = 0
    /\ last_draft = NoDraftDict
    /\ batch_drafts = <<>>

(***************************************************************************)
(* Spec: single calls of categorize_content and process_content on one     *)
(* record, in any order.                                                   *)
(***************************************************************************)
Init ==
    /\ ProcessorInit
    /\ content_dict \in (IF use_llm THEN ScrapedRecords({"No title"}, CleanerTexts)
                                    ELSE ScrapedRecords(Titles, Texts) \cup SplitPhraseRecords)
    /\ RecordIdle
    /\ BatchIdle
    /\ CleanIdle
    /\ QueueIdle
    /\ ScrapeIdle
    /\ GeneratorIdle

CategorizeContent ==
    /\ scores' = SectorScores(content_dict)
    /\ content_dict' = WithCategory(content_dict, scores')
    /\ op' = "categorize_content"
    /\ UNCHANGED <<generatorVars, scrapeVars, processor, use_llm, base_category, raised, text, response, batchVars,
                   cleanVars, queueVars>>

ProcessContent ==
    \E r \in (IF CallsLLM(content_dict, use_llm) THEN Responses ELSE {NoResponse}),
       nltk_fault \in BOOLEAN :
        \E out \in {process_content(processor, content_dict, use_llm, r, nltk_fault)} :
            /\ base_category' = Get(content_dict, "category", PyNone)
            /\ content_dict' = out.rec
            /\ raised' = out.raised
            /\ text' = out.text
            /\ response' = r
            /\ op' = "process_content"
            /\ UNCHANGED <<generatorVars, scrapeVars, processor, use_llm, scores, batchVars, cleanVars, queueVars>>

Next == CategorizeContent \/ ProcessContent

Spec == Init /\ [][Next]_vars

(***************************************************************************)
(* SpecBatch: the workflow's categorize step over the scraped list, then   *)
(* batch_process.                                                          *)
(***************************************************************************)
InitBatch ==
    /\ ProcessorInit
    /\ content_dict = [url |-> "", title |-> "", content |-> ""]
    /\ RecordIdle
    /\ \E texts \in BatchLists :
          content_list = [i \in 1..Len(texts) |->
                            [url |-> BatchUrls[i], title |-> "No title", content |-> texts[i]]]
    /\ original_list = content_list
    /\ processed = <<>>
    /\ failed = {}
    /\ stage = "scraped"
    /\ CleanIdle
    /\ QueueIdle
    /\ ScrapeIdle
    /\ GeneratorIdle

\* run_workflow: [self.scraper.categorize_content(content) for content in scraped_content]
CategorizeAll ==
    /\ stage = "scraped"
    /\ content_list' = [i \in 1..Len(content_list) |-> categorize_content(content_list[i])]
    /\ original_list' = content_list'
    /\ stage' = "categorized"
    /\ UNCHANGED <<generatorVars, scrapeVars, processor, use_llm, recordVars, processed, failed, cleanVars,
                   queueVars>>

BatchProcess ==
    /\ stage \in {"scraped", "categorized"}
    /\ \E env \in [1..Len(content_list) ->
                     [response : (IF use_llm THEN BatchResponses ELSE {NoResponse}),
                      nltk_fault : BOOLEAN]] :
          LET outcome == BatchOutcome(processor, content_list, use_llm, env)
          IN  /\ processed' = batch_process(processor, content_list, use_llm, env)
              /\ failed' = {i \in 1..Len(content_list) : outcome[i].raised # "none"}
    /\ content_list' = processed'
    /\ stage' = "processed"
    /\ UNCHANGED <<generatorVars, scrapeVars, processor, use_llm, recordVars, original_list, cleanVars,
                   queueVars>>

NextBatch == CategorizeAll \/ BatchProcess

SpecBatch == InitBatch /\ [][NextBatch]_vars

(***************************************************************************)
(* SpecClean: the cleaning methods of WebScraper on the text of a page.    *)
(* Each stage is a function of the text it is handed, so the stages are    *)
(* called on the raw text and on each other's results, up to MaxCalls      *)
(* calls; _clean_and_filter_content is called on the raw text, as          *)
(* scrape_url calls it, and the record it gives is then categorized, as    *)
(* run_workflow does.  A stage that raises ends the scrape.                *)
(***************************************************************************)
MaxCalls == 2

EndToEndText ==
    "Electric vehicle battery prices are falling. Contact us at info@x.com. Call 555-123-4567."

RawTexts ==
    {"",
     EndToEndText,
     "Green energy is growing fast. Cats sleep all day long.",
     "  The   ad menu is here!!!   Register now....  ",
     ", \", \"'\").replace(\").replace(",
     "Cats sleep all day long. Cats  sleep \t all day long.\nDogs too.",
     "See https://example.com/a?b=1 for the battery report.",
     "The electric grid is old. Cats sleep all day long.",
     "The startup pitch deck is ready. Data about energy and transport.",
     "Bad policy supports automation. Short.",
     "Read our privacy  policy today. Copyright 2024 was old??",
     "He said {hi}  and it~s fine!!"}

\* The module's strings hold ASCII only: in the raw texts these four
\* characters stand for the curly quotes U+201C and U+201D and the curly
\* apostrophes U+2018 and U+2019.  Like them they are neither white space nor
\* word characters, and no stage names them.
CurlyQuotes == {"{", "}", "|", "~"}

CleanTitles == {"No title", "Battery news"}

InitClean ==
    /\ processor = "plain"
    /\ use_llm = FALSE
    /\ raw \in RawTexts
    /\ \E title \in CleanTitles :
          content_dict = [url |-> "https://example.com/a", title |-> title, content |-> raw]
    /\ RecordIdle
    /\ BatchIdle
    /\ before = PyNone
    /\ calls = 0
    /\ nltk = "none"
    /\ QueueIdle
    /\ ScrapeIdle
    /\ GeneratorIdle

\* One stage method is called on the current text and gives result.
StageCall(name, nltk_fault, result) ==
    /\ calls < MaxCalls
    /\ raised = "none"
    /\ op \notin {"_clean_and_filter_content", "categorize_content"}
    /\ before' = content_dict["content"]
    /\ calls' = calls + 1
    /\ nltk' = nltk_fault
    /\ op' = name
    /\ raised' = result.raised
    /\ content_dict' = IF result.raised = "none"
                       THEN [content_dict EXCEPT !["content"] = result.text]
                       ELSE content_dict
    /\ UNCHANGED <<generatorVars, scrapeVars, processor, use_llm, base_category, scores, text, response, batchVars, raw,
                   queueVars>>

BasicTextCleaning ==
    StageCall("_basic_text_cleaning", "none", Got(basic_text_cleaning(content_dict["content"])))

RemoveIrrelevantContent ==
    StageCall("_remove_irrelevant_content", "none",
              Got(remove_irrelevant_content(content_dict["content"])))

GrammarAndCoherenceFilter ==
    \E nltk_fault \in NltkFaults :
        StageCall("_grammar_and_coherence_filter", nltk_fault,
                  grammar_and_coherence_filter(content_dict["content"], nltk_fault))

SectorContextFilter ==
    \E nltk_fault \in NltkFaults :
        StageCall("_sector_context_filter", nltk_fault,
                  Got(sector_context_filter(content_dict["content"],
                                            content_dict["title"], nltk_fault)))

FinalPolish ==
    \E nltk_fault \in NltkFaults :
        StageCall("_final_polish", nltk_fault,
                  Got(final_polish(content_dict["content"], nltk_fault)))

CleanAndFilterContent ==
    /\ calls = 0
    /\ op = "none"
    /\ \E nltk_fault \in NltkFaults :
          \E result \in {clean_and_filter_content(content_dict["content"],
                                                  content_dict["title"], nltk_fault)} :
              /\ raised' = result.raised
              /\ content_dict' = IF result.raised = "none"
                                 THEN [content_dict EXCEPT !["content"] = result.text]
                                 ELSE content_dict
              /\ nltk' = nltk_fault
    /\ before' = content_dict["content"]
    /\ calls' = calls + 1
    /\ op' = "_clean_and_filter_content"
    /\ UNCHANGED <<generatorVars, scrapeVars, processor, use_llm, base_category, scores, text, response, batchVars, raw,
                   queueVars>>

\* run_workflow categorizes what scrape_url returned.
CategorizeScraped ==
    /\ op = "_clean_and_filter_content"
    /\ raised = "none"
    /\ CategorizeContent

NextClean ==
    \/ BasicTextCleaning
    \/ RemoveIrrelevantContent
    \/ GrammarAndCoherenceFilter
    \/ SectorContextFilter
    \/ FinalPolish
    \/ CleanAndFilterContent
    \/ CategorizeScraped

SpecClean == InitClean /\ [][NextClean]_vars

(***************************************************************************)
(* The Draft Store: queue_manager.py.  A draft is a dict object; the heap  *)
(* holds the dict objects made so far, and a draft is named by its place   *)
(* in the heap, so that two names of one object are told from two objects  *)
(* that hold the same fields.                                              *)
(***************************************************************************)

\* The largest number of draft objects, and of additions between two
\* clearings of the queue.
MaxDrafts == 2

\* get_next_draft's None.
NoDraft == 0

\* datetime.now().isoformat()
Now == "<now>"

\* The queue file: absent, holding text json.load cannot read, or holding the
\* list of drafts a save wrote.
NoFile == [kind |-> "absent", drafts |-> <<>>]

Corrupt == [kind |-> "corrupt", drafts |-> <<>>]

Written(drafts) == [kind |-> "json", drafts |-> drafts]

\* A dict the Draft Composer has made: no added_at and no status yet.
NewDraft(k) == [draft |-> "Post " \o ToString(k), added_at |-> PyNone, status |-> PyNone]

\* list(self.queue), as json.dump writes it: the fields the drafts have now.
Dump(q, h) == [i \in 1..Len(q) |-> h[q[i]]]

\* How a save can end: the file is written; open() raises and the file stays
\* as it was; the write breaks off after open() has emptied the file.
SaveOutcomes == {"written", "refused", "cut"}

\* save_queue: an exception is logged and swallowed.
save_queue(q, h, file, outcome) ==
    CASE outcome = "written" -> Written(Dump(q, h))
      [] outcome = "refused" -> file
      [] OTHER -> Corrupt

\* load_queue: the drafts the file holds, none when there is no file or
\* json.load raises.
load_queue(file) == IF file.kind = "json" THEN file.drafts ELSE <<>>

\* A faulty variant: the draft is put at the front of the queue.
add_draft_AtFront(w, d, outcome) ==
    LET h == [w.heap EXCEPT ![d].added_at = Now, ![d].status = "pending"]
        q == <<d>> \o w.queue
    IN  [queue |-> q, heap |-> h, queue_file |-> save_queue(q, h, w.queue_file, outcome)]

\* add_draft: the caller's dict itself is stamped and appended.
add_draft(w, d, outcome) ==
    LET h == [w.heap EXCEPT ![d].added_at = Now, ![d].status = "pending"]
        q == Append(w.queue, d)
    IN  [queue |-> q, heap |-> h, queue_file |-> save_queue(q, h, w.queue_file, outcome)]

\* A faulty variant: the file is written before the draft is taken out.
get_next_draft_SavesFirst(w, outcome) ==
    IF w.queue # <<>>
    THEN LET draft == Head(w.queue)
             h == [w.heap EXCEPT ![draft].status = "retrieved"]
         IN  [queue |-> Tail(w.queue), heap |-> h,
              queue_file |-> save_queue(w.queue, h, w.queue_file, outcome), result |-> draft]
    ELSE [queue |-> w.queue, heap |-> w.heap, queue_file |-> w.queue_file,
          result |-> NoDraft]

\* get_next_draft: the world it leaves and the draft it returns.
get_next_draft(w, outcome) ==
    IF w.queue # <<>>
    THEN LET draft == Head(w.queue)
             q == Tail(w.queue)
             h == [w.heap EXCEPT ![draft].status = "retrieved"]
         IN  [queue |-> q, heap |-> h,
              queue_file |-> save_queue(q, h, w.queue_file, outcome), result |-> draft]
    ELSE [queue |-> w.queue, heap |-> w.heap, queue_file |-> w.queue_file,
          result |-> NoDraft]

\* A faulty variant: the newest draft is shown.
peek_next_draft_Newest(q) == IF q # <<>> THEN q[Len(q)] ELSE NoDraft

\* peek_next_draft: list(self.queue)[0], the dict itself, or None.
peek_next_draft(q) == IF q # <<>> THEN Head(q) ELSE NoDraft

\* queue_size
queue_size(q) == Len(q)

\* list_queue's default limit.
ListLimit == 5

\* list_queue: the summaries of the first drafts; a draft of the model has no
\* category, and its text is shorter than the preview's 50 characters.
list_queue(q, h, limit) ==
    [i \in 1..(IF Len(q) < limit THEN Len(q) ELSE limit) |->
        [position |-> i, category |-> "unknown",
         title_preview |-> h[q[i]].draft \o "...",
         added_at |-> h[q[i]].added_at, status |-> h[q[i]].status]]

\* clear_queue
clear_queue(w, outcome) ==
    [queue |-> <<>>, heap |-> w.heap,
     queue_file |-> save_queue(<<>>, w.heap, w.queue_file, outcome)]

RECURSIVE batch_add_drafts(_, _, _)
\* batch_add_drafts: add_draft on each draft of the list in turn, each with
\* its own save.
batch_add_drafts(w, drafts_list, outcomes) ==
    IF drafts_list = <<>> THEN w
    ELSE batch_add_drafts(add_draft(w, Head(drafts_list), Head(outcomes)),
                          Tail(drafts_list), Tail(outcomes))

\* The greatest number of a set of numbers.
Greatest(S) == CHOOSE x \in S : \A y \in S : y <= x

\* The heap once the caller has made the dicts up to number n.
MadeUpTo(h, n) == [k \in 1..n |-> IF k <= Len(h) THEN h[k] ELSE NewDraft(k)]

\* The lists of at most n drafts a caller can hand over: dicts it made
\* earlier or was given by the store, and dicts made for this call.
DraftLists(h, n) ==
    {l \in UNION {[1..m -> 1..MaxDrafts] : m \in 0..n} :
        LET new == {l[i] : i \in 1..Len(l)} \ (1..Len(h))
        IN  new = (Len(h) + 1)..(Len(h) + Cardinality(new))}

\* What the queue file can hold when a process starts: nothing, broken
\* text, or the pending drafts an earlier process left.
StoredDraft(k) == [draft |-> "Post " \o ToString(k), added_at |-> Now, status |-> "pending"]

QueueFiles ==
    {NoFile, Corrupt} \cup {Written([i \in 1..n |-> StoredDraft(i)]) : n \in 0..MaxDrafts}

\* __init__ in a new process: the dicts json.load makes are the only drafts
\* there are, and the queue holds them in the file's order.
Loaded(file) == [i \in 1..Len(load_queue(file)) |-> i]

InitQueue ==
    /\ processor = "plain"
    /\ use_llm = FALSE
    /\ content_dict = [url |-> "", title |-> "", content |-> ""]
    /\ RecordIdle
    /\ BatchIdle
    /\ CleanIdle
    /\ queue_file \in QueueFiles
    /\ heap = load_queue(queue_file)
    /\ queue = Loaded(queue_file)
    /\ added = queue
    /\ returned = <<>>
    /\ next_draft = NoDraft
    /\ loaded = Len(queue)
    /\ save_failed = FALSE
    /\ last_save = "none"
    /\ answer = NoDraft
    /\ ScrapeIdle
    /\ GeneratorIdle

World == [queue |-> queue, heap |-> heap, queue_file |-> queue_file]

\* The store's state becomes w after the call of this name, in which the
\* saves ended with these outcomes.  No save fails after one has failed.
QueueCall(name, w, outcomes) ==
    /\ LET failing == {i \in 1..Len(outcomes) : outcomes[i] # "written"}
       IN  /\ save_failed => failing = {}
           /\ Cardinality(failing) <= 1
           /\ save_failed' = (save_failed \/ failing # {})
    /\ last_save' = IF outcomes = <<>> THEN "none" ELSE outcomes[Len(outcomes)]
    /\ answer' = NoDraft
    /\ queue' = w.queue
    /\ heap' = w.heap
    /\ queue_file' = w.queue_file
    /\ op' = name
    /\ UNCHANGED <<generatorVars, scrapeVars, processor, use_llm, content_dict, base_category, scores, raised, text,
                   response, batchVars, cleanVars, loaded>>

AddDraft ==
    /\ Len(added) < MaxDrafts
    /\ \E d \in {k \in 1..MaxDrafts : k <= Len(heap) + 1}, outcome \in SaveOutcomes :
          /\ QueueCall("add_draft",
                       add_draft([World EXCEPT !.heap = MadeUpTo(heap, Greatest({Len(heap), d}))],
                                 d, outcome), <<outcome>>)
          /\ added' = Append(added, d)
          /\ next_draft' = NoDraft
          /\ UNCHANGED returned

GetNextDraft ==
    \E outcome \in SaveOutcomes :
        \E out \in {get_next_draft(World, outcome)} :
            /\ QueueCall("get_next_draft", out, IF queue = <<>> THEN <<>> ELSE <<outcome>>)
            /\ next_draft' = out.result
            /\ returned' = IF out.result = NoDraft THEN returned ELSE Append(returned, out.result)
            /\ UNCHANGED added

ClearQueue ==
    \E outcome \in SaveOutcomes :
        /\ QueueCall("clear_queue", clear_queue(World, outcome), <<outcome>>)
        /\ added' = <<>>
        /\ returned' = <<>>
        /\ next_draft' = NoDraft

BatchAddDrafts ==
    \E l \in DraftLists(heap, MaxBatch) :
        /\ Len(added) + Len(l) <= MaxDrafts
        /\ \E outcomes \in [1..Len(l) -> SaveOutcomes] :
              QueueCall("batch_add_drafts",
                        batch_add_drafts(
                            [World EXCEPT !.heap = MadeUpTo(heap, Greatest({Len(heap)} \cup
                                                                   {l[i] : i \in 1..Len(l)}))],
                            l, outcomes), outcomes)
        /\ added' = added \o l
        /\ next_draft' = NoDraft
        /\ UNCHANGED returned

\* A call that returns this and assigns nothing.
ReadCall(name, returns) ==
    /\ op' = name
    /\ answer' = returns
    /\ last_save' = "none"
    /\ next_draft' = NoDraft
    /\ UNCHANGED <<generatorVars, scrapeVars, processor, use_llm, content_dict, base_category, scores, raised, text,
                   response, batchVars, cleanVars, queue, heap, queue_file, added, returned,
                   loaded, save_failed>>

PeekNextDraft == ReadCall("peek_next_draft", peek_next_draft(queue))

QueueSize == ReadCall("queue_size", queue_size(queue))

ListQueue == ReadCall("list_queue", list_queue(queue, heap, ListLimit))

\* The process ends and a new one constructs its QueueManager on the file.
Restart ==
    /\ heap' = load_queue(queue_file)
    /\ queue' = Loaded(queue_file)
    /\ added' = queue'
    /\ returned' = <<>>
    /\ next_draft' = NoDraft
    /\ loaded' = Len(queue')
    /\ UNCHANGED save_failed
    /\ last_save' = "none"
    /\ answer' = NoDraft
    /\ op' = "__init__"
    /\ UNCHANGED queue_file
    /\ UNCHANGED <<generatorVars, scrapeVars, processor, use_llm, content_dict, base_category, scores, raised, text,
                   response, batchVars, cleanVars>>

NextQueue ==
    \/ AddDraft
    \/ GetNextDraft
    \/ ClearQueue
    \/ BatchAddDrafts
    \/ PeekNextDraft
    \/ QueueSize
    \/ ListQueue
    \/ Restart

SpecQueue == InitQueue /\ [][NextQueue]_vars

(***************************************************************************)
(* SpecScrape: scrape_url fetches a page in up to max_retries attempts,    *)
(* and scrape_multiple_urls calls it on each URL of a list of up to        *)
(* MaxUrls URLs.  What the network and the page do is not the program's to *)
(* choose: each attempt ends in any of FetchOutcomes.                      *)
(***************************************************************************)
MaxUrls == 2

\* def scrape_url(self, url, max_retries=3, delay=1)
DefaultRetries == 3

PageUrls == {"https://example.com/a", "https://example.com/b"}

UrlLists == UNION {[1..n -> PageUrls] : n \in 0..MaxUrls}

\* How the try block of one attempt ends: it reaches its return, or
\* session.get or raise_for_status raises a RequestException, or anything in
\* it raises another Exception.
FetchOutcomes == {"return", "RequestException", "Exception"}

\* The dict scrape_url returns for the page at this URL.
ScrapedPage(url) ==
    [kind |-> "dict", url |-> url, title |-> "No title", content |-> "Page of " \o url]

ScrapedNone == [kind |-> "None", url |-> "", title |-> "", content |-> ""]

StillScraping == [kind |-> "running", url |-> "", title |-> "", content |-> ""]

\* if result:
Truthy(result) == result.kind = "dict"

\* A faulty variant: the last retry is never made.
RetryAfterRequestError_GivesUpEarly(att, retries) == att < retries - 2

\* except RequestException: if attempt < max_retries - 1 the loop sleeps and
\* goes round again.
RetryAfterRequestError(att, retries) == att < retries - 1

InitScrape ==
    /\ processor = "plain"
    /\ use_llm = FALSE
    /\ content_dict = [url |-> "", title |-> "", content |-> ""]
    /\ RecordIdle
    /\ BatchIdle
    /\ CleanIdle
    /\ QueueIdle
    /\ entry \in {"scrape_url", "scrape_multiple_urls"}
    /\ IF entry = "scrape_url"
       THEN urls \in [1..1 -> PageUrls] /\ max_retries \in 0..DefaultRetries
       ELSE urls \in UrlLists /\ max_retries = DefaultRetries
    /\ url_index = 1
    /\ attempt = 0
    /\ fetched = [i \in 1..Len(urls) |-> <<>>]
    /\ scraped = [i \in 1..Len(urls) |-> StillScraping]
    /\ results = <<>>
    /\ GeneratorIdle

Scraping == url_index <= Len(urls)

\* One more attempt on the current URL ended this way.
Attempted(outcome) ==
    fetched' = [fetched EXCEPT ![url_index] = Append(@, outcome)]

\* scrape_url returns result; scrape_multiple_urls appends it if it is truthy
\* and goes on to the next URL.
ScrapeUrlReturns(result) ==
    /\ scraped' = [scraped EXCEPT ![url_index] = result]
    /\ results' = IF entry = "scrape_multiple_urls" /\ Truthy(result)
                  THEN Append(results, result)
                  ELSE results
    /\ url_index' = url_index + 1
    /\ attempt' = 0
    /\ UNCHANGED <<entry, urls, max_retries, processor, use_llm, recordVars, batchVars,
                   cleanVars, queueVars, generatorVars>>

\* The attempt gets the page, parses and cleans it, and returns the dict.
AttemptSucceeds ==
    /\ Scraping
    /\ attempt < max_retries
    /\ Attempted("return")
    /\ ScrapeUrlReturns(ScrapedPage(urls[url_index]))

\* The attempt raises a RequestException: another attempt, or None.
AttemptRequestError ==
    /\ Scraping
    /\ attempt < max_retries
    /\ Attempted("RequestException")
    /\ IF RetryAfterRequestError(attempt, max_retries)
       THEN /\ attempt' = attempt + 1
            /\ UNCHANGED <<entry, urls, max_retries, url_index, scraped, results, processor,
                           use_llm, recordVars, batchVars, cleanVars, queueVars,
                           generatorVars>>
       ELSE ScrapeUrlReturns(ScrapedNone)

\* The attempt raises another Exception: None at once.
AttemptUnexpectedError ==
    /\ Scraping
    /\ attempt < max_retries
    /\ Attempted("Exception")
    /\ ScrapeUrlReturns(ScrapedNone)

\* range(max_retries) is used up without a return: the function ends and
\* returns None.
LoopEnds ==
    /\ Scraping
    /\ ~(attempt < max_retries)
    /\ UNCHANGED fetched
    /\ ScrapeUrlReturns(ScrapedNone)

NextScrape ==
    \/ AttemptSucceeds
    \/ AttemptRequestError
    \/ AttemptUnexpectedError
    \/ LoopEnds

SpecScrape == InitScrape /\ [][NextScrape]_vars

\* Every call of session.get ends (timeout=10) and every sleep ends, so a
\* step that can be taken is taken.
FairSpecScrape == SpecScrape /\ WF_vars(NextScrape)

(***************************************************************************)
(* LinkedInDraftGenerator (generator.py).  The texts are the source's; an  *)
(* emoji is written "*" and the long dash "-", one character each as in    *)
(* Python's len.                                                           *)
(***************************************************************************)
\* self.max_chars
max_chars == 3000

UpperChar(c) ==
    CASE c = "a" -> "A" [] c = "b" -> "B" [] c = "c" -> "C" [] c = "d" -> "D"
      [] c = "e" -> "E" [] c = "f" -> "F" [] c = "g" -> "G" [] c = "h" -> "H"
      [] c = "i" -> "I" [] c = "j" -> "J" [] c = "k" -> "K" [] c = "l" -> "L"
      [] c = "m" -> "M" [] c = "n" -> "N" [] c = "o" -> "O" [] c = "p" -> "P"
      [] c = "q" -> "Q" [] c = "r" -> "R" [] c = "s" -> "S" [] c = "t" -> "T"
      [] c = "u" -> "U" [] c = "v" -> "V" [] c = "w" -> "W" [] c = "x" -> "X"
      [] c = "y" -> "Y" [] c = "z" -> "Z" [] OTHER -> c

RECURSIVE TitleFrom(_, _)
TitleFrom(s, i) ==
    IF i > Len(s) THEN ""
    ELSE (IF i > 1 /\ CharAt(s, i - 1) \in LowerChars \cup UpperChars
          THEN LowerChar(CharAt(s, i))
          ELSE UpperChar(CharAt(s, i))) \o TitleFrom(s, i + 1)

\* str.title(): a letter behind a letter is lowered, any other letter raised.
Title(s) == TitleFrom(s, 1)

\* str.capitalize()
Capitalize(s) ==
    IF s = "" THEN "" ELSE UpperChar(CharAt(s, 1)) \o Lower(SubSeq(s, 2, Len(s)))

\* xs[:n]
FirstOf(xs, n) == SubSeq(xs, 1, IF Len(xs) < n THEN Len(xs) ELSE n)

\* x in xs, for lists
InList(x, xs) == \E i \in 1..Len(xs) : xs[i] = x

RECURSIVE RStripOf(_, _)
\* str.rstrip(chars)
RStripOf(s, chars) ==
    IF s = "" \/ CharAt(s, Len(s)) \notin chars THEN s
    ELSE RStripOf(SubSeq(s, 1, Len(s) - 1), chars)

RECURSIVE LStripOf(_, _)
\* str.lstrip(chars)
LStripOf(s, chars) ==
    IF s = "" \/ CharAt(s, 1) \notin chars THEN s
    ELSE LStripOf(SubSeq(s, 2, Len(s)), chars)

\* str.strip() and str.rstrip(), taken off the ends one character at a time
StripEnds(s) == LStripOf(RStripOf(s, SpaceChars), SpaceChars)

RStrip(s) == RStripOf(s, SpaceChars)

SplitMarks == {".", "!", "?"}

RECURSIVE MarkRunEnd(_, _)
\* The last position of the run of marks that begins at i.
MarkRunEnd(s, i) ==
    IF i + 1 > Len(s) \/ CharAt(s, i + 1) \notin SplitMarks THEN i
    ELSE MarkRunEnd(s, i + 1)

RECURSIVE ReSplitMarksFrom(_, _)
ReSplitMarksFrom(s, i) ==
    LET marks == {p \in i..Len(s) : CharAt(s, p) \in SplitMarks}
    IN  IF marks = {} THEN <<SubSeq(s, i, Len(s))>>
        ELSE <<SubSeq(s, i, Least(marks) - 1)>>
             \o ReSplitMarksFrom(s, MarkRunEnd(s, Least(marks)) + 1)

\* re.split(r'[.!?]+', s)
ReSplitMarks(s) == ReSplitMarksFrom(s, 1)

category_hashtags ==
    [category \in {"e-mobility", "manufacturing", "politics-governance", "general"} |->
        CASE category = "e-mobility" ->
                 <<"#ElectricVehicles", "#EV", "#SustainableMobility", "#GreenEnergy",
                   "#Innovation">>
          [] category = "manufacturing" ->
                 <<"#Manufacturing", "#Industry40", "#Automation", "#SupplyChain",
                   "#Engineering">>
          [] category = "politics-governance" ->
                 <<"#Policy", "#Governance", "#Politics", "#Regulation", "#PublicSector">>
          [] OTHER ->
                 <<"#Business", "#Technology", "#News", "#Insights",
                   "#ProfessionalDevelopment">>]

\* The opening of generate_draft, for category.replace('-', ' ').title().
Hook(category_display, sentiment) ==
    IF sentiment = "positive" THEN
        "As someone deeply immersed in the " \o
        category_display \o
        " landscape, I'm genuinely excited about the transformative developments unfolding before our eyes. * Let me share my perspective on why these changes represent a pivotal moment for our industry."
    ELSE IF sentiment = "negative" THEN
        "Having closely followed the " \o
        category_display \o
        " sector, I'm increasingly concerned about the challenges that demand our immediate attention. * The recent developments highlight systemic issues that we can no longer afford to ignore."
    ELSE
        "In my ongoing analysis of " \o
        category_display \o
        " trends, I've noticed some fascinating patterns emerging that deserve deeper reflection. * Allow me to articulate my thoughts on where we're heading and what it means for professionals like us."

\* any(x.lower() in sentence_lower for x in xs)
AnyWithin(xs, sentence_lower) ==
    \E i \in 1..Len(xs) : Contains(Lower(xs[i]), sentence_lower)

create_detailed_summary(content, keywords, themes) ==
    LET sentences == ReSplitMarks(StripEnds(content))
        IsKey(sentence) ==
            LET sentence_lower == Lower(sentence)
            IN  \/ AnyWithin(FirstOf(keywords, 3), sentence_lower)
                \/ AnyWithin(FirstOf(themes, 2), sentence_lower)
        found == SelectSeq(FirstOf(sentences, 5), IsKey)
        key_sentences ==
            IF found = <<>> /\ sentences # <<>> THEN <<StripEnds(sentences[1])>>
            ELSE [i \in 1..Len(found) |-> StripEnds(found[i])]
        summary_text == Join(" ", FirstOf(key_sentences, 2))
    IN  IF key_sentences # <<>> THEN
            "Delving into the details, " \o RStripOf(Lower(summary_text), {"."}) \o
            ". This development represents a significant shift in how we approach these challenges."
        ELSE
            "The content explores critical developments that are reshaping our understanding of current industry dynamics."

craft_insight_section(themes, keywords, category, sentiment) ==
    LET primary_themes == FirstOf(themes, 3)
        key_terms == FirstOf(keywords, 4)
        theme_connections ==
            IF primary_themes # <<>> THEN
                "The interconnected themes of " \o
                Join(", ", primary_themes) \o
                " particularly resonate with me. When we examine how " \o
                (IF key_terms # <<>> THEN key_terms[1] ELSE "these elements") \o
                " intersects with " \o
                primary_themes[1] \o
                ", we begin to see the broader implications for our field."
            ELSE
                "The key concepts of " \o
                (IF key_terms # <<>> THEN Join(", ", FirstOf(key_terms, 3)) ELSE "innovation and adaptation") \o
                " are particularly noteworthy in this context."
        perspective ==
            IF sentiment = "positive" THEN
                "What excites me most is how these developments create new opportunities for collaboration and growth across traditional boundaries."
            ELSE IF sentiment = "negative" THEN
                "This situation underscores the urgent need for strategic adaptation and proactive problem-solving within our industry."
            ELSE
                "These patterns suggest we're at an inflection point that demands careful consideration and strategic planning."
    IN  theme_connections \o " " \o perspective

\* themes is not used.
develop_strategic_view(category, sentiment, themes) ==
    LET category_display == Replace(category, "-", " ")
    IN  IF sentiment = "positive" THEN
            "Looking ahead, I believe these " \o
            category_display \o
            " advancements will fundamentally reshape our operational landscape. The question isn't whether change is coming-it's how we position ourselves to lead it."
        ELSE IF sentiment = "negative" THEN
            "The challenges we're facing in " \o
            category_display \o
            " aren't insurmountable, but they do require a fundamental rethinking of our current approaches. Success will depend on our ability to innovate while maintaining stability."
        ELSE
            "As we navigate these " \o
            category_display \o
            " developments, the key will be maintaining strategic flexibility while building on our core competencies. The organizations that thrive will be those that can adapt without losing their fundamental identity."

\* The questions list of _create_engagement_question.
questions(category, sentiment) ==
    LET category_display == Replace(category, "-", " ")
    IN  IF sentiment = "positive" THEN
            <<"How do you see these " \o
              category_display \o
              " innovations impacting your work?",
              "What opportunities do you think these developments create for our industry?",
              "How are you preparing your organization for these transformative changes?">>
        ELSE IF sentiment = "negative" THEN
            <<"What strategies are you employing to navigate these " \o
              category_display \o
              " challenges?",
              "How is your organization adapting to these industry headwinds?",
              "What lessons can we learn from these developments to strengthen our position?">>
        ELSE
            <<"Where do you see the " \o
              category_display \o
              " sector heading in the next 12-18 months?",
              "How are these trends influencing your strategic planning?",
              "What aspects of these developments are you most focused on right now?">>

sophisticated_ctas ==
    <<"I'd genuinely value your perspective on this. What are your thoughts?",
      "This is a conversation worth having-please share your insights below.",
      "Your experience in this area would be incredibly valuable. What's your take?",
      "Let's continue this important discussion. What's your professional viewpoint?",
      "I'm particularly interested in hearing from others in the field. What's your experience?">>

\* '#' + ''.join(word.capitalize() for word in words)
Hashtag(words) == "#" \o Join("", [i \in 1..Len(words) |-> Capitalize(words[i])])

LongerThanTwo(word) == Len(word) > 2

RECURSIVE KeywordHashtags(_, _)
\* for kw in keywords[:2]: a hashtag of the keyword's longer words is added
\* if the keyword has more than 3 characters and the hashtag is new and has
\* more than 4.
KeywordHashtags(hashtags, keywords) ==
    IF keywords = <<>> THEN hashtags
    ELSE LET kw == keywords[1]
             hashtag == Hashtag(SelectSeq(split(kw), LongerThanTwo))
         IN  KeywordHashtags(
                 IF Len(kw) > 3 /\ ~InList(hashtag, hashtags) /\ Len(hashtag) > 4
                 THEN Append(hashtags, hashtag)
                 ELSE hashtags,
                 Tail(keywords))

RECURSIVE ThemeHashtags(_, _)
\* for theme in themes[:1]: a hashtag of the theme's first two words is added
\* if there are two and the hashtag is new.
ThemeHashtags(hashtags, themes) ==
    IF themes = <<>> THEN hashtags
    ELSE LET theme_words == FirstOf(split(themes[1]), 2)
             hashtag == Hashtag(theme_words)
         IN  ThemeHashtags(
                 IF Len(theme_words) > 1 /\ ~InList(hashtag, hashtags)
                 THEN Append(hashtags, hashtag)
                 ELSE hashtags,
                 Tail(themes))

generate_curated_hashtags(category, keywords, themes) ==
    LET hashtags == Get(category_hashtags, category, category_hashtags["general"])
    IN  FirstOf(ThemeHashtags(KeywordHashtags(hashtags, FirstOf(keywords, 2)),
                              FirstOf(themes, 1)), 8)

RECURSIVE CutAtParagraph(_, _)
\* The loop of _polish_draft: paragraphs are taken while the text with the
\* next one stays within max_chars - 50.
CutAtParagraph(polished_draft, paragraphs) ==
    IF paragraphs = <<>> THEN polished_draft
    ELSE IF Len(polished_draft) + Len("\n\n") + Len(paragraphs[1]) > max_chars - 50
         THEN polished_draft
    ELSE CutAtParagraph(
             polished_draft \o (IF polished_draft # "" THEN "\n\n" ELSE "") \o paragraphs[1],
             Tail(paragraphs))

\* A faulty variant: the draft is never cut.
polish_draft_Uncut(draft) == StripEnds(SubRuns(RStrip(draft), "\n", 3, "\n\n"))

polish_draft(draft) ==
    LET cut == IF Len(draft) > max_chars
               THEN RStrip(CutAtParagraph("", SplitOn(draft, "\n\n"))) \o "..."
               ELSE RStrip(draft)
    IN  StripEnds(SubRuns(cut, "\n", 3, "\n\n"))

Sentiments == {"positive", "negative", "neutral"}

\* generate_draft raises when a field that must be a str is None.
GenerateDraftRaises(processed_content) ==
    \/ Get(processed_content, "category", "general") = PyNone
    \/ Get(processed_content, "content", "") = PyNone

\* hash(s) for a str: what it gives is fixed when the process starts and
\* differs from process to process.  As seed runs through HashSeeds,
\* hash(s) % 3 and hash(t) % 5 take every pair of values for any s and t.
Hash(s, seed) == seed + Len(s)

HashSeeds == 0..(3 * 5 - 1)

\* What generate_draft returns in a process with this hash seed.
generate_draft(processed_content, seed) ==
    LET content == Get(processed_content, "content", "")
        keywords == Get(processed_content, "keywords", <<>>)
        themes == Get(processed_content, "themes", <<>>)
        category == Get(processed_content, "category", "general")
        sentiment == Get(processed_content, "sentiment", "neutral")
        hook == Hook(Title(Replace(category, "-", " ")), sentiment)
        detailed_summary == create_detailed_summary(content, keywords, themes)
        strategic_view == develop_strategic_view(category, sentiment, themes)
        engagement_question ==
            questions(category, sentiment)[(Hash(category \o sentiment, seed) % 3) + 1]
        cta == sophisticated_ctas[(Hash(category, seed) % 5) + 1]
        hashtags == generate_curated_hashtags(category, keywords, themes)
        draft_parts ==
            hook
            \o (IF detailed_summary # "" THEN "\n\n" \o detailed_summary ELSE "")
            \o (IF themes # <<>> /\ keywords # <<>>
                THEN "\n\n" \o craft_insight_section(themes, keywords, category, sentiment)
                ELSE "")
            \o "\n\n" \o strategic_view
            \o "\n\n" \o engagement_question
            \o "\n\n" \o cta
            \o (IF hashtags # <<>> THEN "\n\n" \o Join(" ", hashtags) ELSE "")
    IN  LET polished == polish_draft(draft_parts)
        IN  [draft |-> polished,
             hashtags |-> hashtags,
             character_count |-> Len(polished),
             cta |-> cta,
             category |-> category]

\* The dict batch_generate puts in the place of a draft that raised.
ErrorDraft(content) ==
    [draft |-> "Error generating draft",
     hashtags |-> <<>>,
     character_count |-> 0,
     cta |-> "",
     category |-> Get(content, "category", "general")]

batch_generate(contents, seed) ==
    [i \in 1..Len(contents) |->
        IF GenerateDraftRaises(contents[i])
        THEN ErrorDraft(contents[i])
        ELSE generate_draft(contents[i], seed)]

\* How many times the long record's first sentence says "very".
LongRun == 368

\* n copies of s, one behind the other
RECURSIVE Copies(_, _)
Copies(s, n) ==
    IF n = 0 THEN ""
    ELSE IF n = 1 THEN s
    ELSE Copies(s, n \div 2) \o Copies(s, n - n \div 2)

\* A record whose first sentence is long enough for the parts of the draft to
\* come to 3000 characters and more.
LongProcessed ==
    [url |-> "https://example.com/b",
     title |-> "Long read",
     content |-> "Battery " \o Copies("very ", LongRun)
                 \o "longer supply chains need automation. Plants are closing fast! Is it over?",
     keywords |-> <<"supply chains", "battery">>,
     themes |-> <<"need automation">>,
     category |-> "manufacturing",
     sentiment |-> "negative"]

\* A record of a category the generator has no hashtags for, with short
\* keywords and a theme of one word.
ShortProcessed ==
    [url |-> "https://example.com/c",
     title |-> "No title",
     content |-> "AI is here... Models learn fast",
     keywords |-> <<"ai", "the big models", "learning">>,
     themes |-> <<"learning">>,
     category |-> "ai-ml",
     sentiment |-> "positive"]

\* A record as scrape_url made it, never processed.
BareScraped == [url |-> "https://example.com/a", title |-> "No title", content |-> ""]

\* A record whose category is None.
NoneCategory ==
    [url |-> "https://example.com/d", title |-> "No title", content |-> "Prices rise.",
     keywords |-> <<>>, themes |-> <<>>, category |-> PyNone, sentiment |-> "neutral"]

(***************************************************************************)
(* SpecGenerate: generate_draft and batch_generate are called, in any      *)
(* order, on a list of up to MaxInputs records.                            *)
(***************************************************************************)
MaxInputs == 2

ProcessedRecords ==
    {LongProcessed, ShortProcessed, BareScraped, NoneCategory}

\* The lists of up to MaxInputs records, no record twice.
ProcessedLists ==
    {l \in UNION {[1..n -> ProcessedRecords] : n \in 0..MaxInputs} :
        \A i, j \in 1..Len(l) : l[i] = l[j] => i = j}

InitGenerate ==
    /\ processor = "plain"
    /\ use_llm = FALSE
    /\ content_dict = [url |-> "", title |-> "", content |-> ""]
    /\ RecordIdle
    /\ BatchIdle
    /\ CleanIdle
    /\ QueueIdle
    /\ ScrapeIdle
    /\ processed_content_list \in ProcessedLists
    /\ hash_seed \in HashSeeds
    /\ last_draft = NoDraftDict
    /\ batch_drafts = <<>>

\* generate_draft(processed_content_list[i]) returns a draft or raises.
GenerateDraft ==
    \E i \in 1..Len(processed_content_list) :
        /\ op' = "generate_draft"
        /\ content_dict' = processed_content_list[i]
        /\ IF GenerateDraftRaises(processed_content_list[i])
           THEN raised' = "AttributeError" /\ last_draft' = NoDraftDict
           ELSE /\ raised' = "none"
                /\ last_draft' = generate_draft(processed_content_list[i], hash_seed)
        /\ batch_drafts' = <<>>
        /\ UNCHANGED <<processed_content_list, hash_seed, scrapeVars, processor,
                       use_llm, base_category, scores, text, response, batchVars,
                       cleanVars, queueVars>>

\* batch_generate(processed_content_list) returns its list of drafts.
BatchGenerate ==
    /\ op' = "batch_generate"
    /\ raised' = "none"
    /\ batch_drafts' = batch_generate(processed_content_list, hash_seed)
    /\ last_draft' = NoDraftDict
    /\ UNCHANGED <<processed_content_list, hash_seed, scrapeVars, processor,
                   use_llm, content_dict, base_category, scores, text, response,
                   batchVars, cleanVars, queueVars>>

NextGenerate == GenerateDraft \/ BatchGenerate

SpecGenerate == InitGenerate /\ [][NextGenerate]_vars

(***************************************************************************)
(* Properties.                                                             *)
(***************************************************************************)
\* The Sector enumeration of the data model.
Sector ==
    {"e-mobility", "manufacturing", "politics-governance", "ai-ml",
     "startup-innovation", "general"}

Categorized == op = "categorize_content"

Processed == op = "process_content"

HasDuplicates(xs) == \E i, j \in 1..Len(xs) : i # j /\ xs[i] = xs[j]

\* The sectors whose score is the maximum, as indices into sectors.
TiedAtMax == {i \in 1..Len(scores) : scores[i] = MaxOf(scores)}

\* C1: after any sequence of categorize_content and process_content calls the
\* record's category is a member of the Sector enumeration.
C1_CategoryInSector ==
    "category" \in DOMAIN content_dict => content_dict["category"] \in Sector

\* C2: batch_process returns a list as long as its input, and position i of
\* it holds the record that was at position i of the input.
C2_BatchKeepsLengthAndOrder ==
    stage = "processed" =>
        /\ Len(processed) = Len(original_list)
        /\ \A i \in 1..Len(original_list) : processed[i]["url"] = original_list[i]["url"]

C2_Witness ==
    /\ stage = "processed"
    /\ Len(processed) = MaxBatch
    /\ failed # {}
    /\ failed # 1..Len(processed)

\* C3: a record whose process_content raised sits in the output equal, field
\* for field, to the record handed to batch_process.
C3_FailedRecordIsOriginal ==
    stage = "processed" =>
        \A i \in failed : processed[i] = original_list[i]

C5_TieOfTwoGoesToFirstDeclared ==
    (Categorized /\ MaxOf(scores) >= 2 /\ Cardinality(TiedAtMax) >= 2) =>
        \E i \in TiedAtMax :
            /\ \A j \in TiedAtMax : i <= j
            /\ content_dict["category"] = sectors[i].name

C5_Witness ==
    /\ Categorized
    /\ MaxOf(scores) >= 2
    /\ Cardinality(TiedAtMax) >= 2
    /\ 1 \notin TiedAtMax
    /\ content_dict["category"] = "manufacturing"

\* C6: after categorize_content, when two or more sectors score exactly 1 and
\* none scores higher, the category is general.
C6_TieOfOneIsGeneral ==
    (Categorized /\ MaxOf(scores) = 1 /\ Cardinality(TiedAtMax) >= 2) =>
        content_dict["category"] = "general"

C6_Witness ==
    /\ Categorized
    /\ MaxOf(scores) = 1
    /\ Cardinality(TiedAtMax) >= 2
    /\ content_dict["category"] = "general"

\* The indicator groups in the order the Category Refiner is said to scan
\* them; the extended groups exist in the LLM-capable processor only.
RefinerGroups(p) ==
    << [category |-> "e-mobility", indicators |-> {"electric", "vehicle", "battery"}],
       [category |-> "manufacturing", indicators |-> {"manufactur", "supply", "automation"}],
       [category |-> "politics-governance", indicators |-> {"government", "policy", "regulation"}] >>
    \o (IF p = "llm"
        THEN << [category |-> "startup & innovation",
                 indicators |-> {"startup", "entrepreneur", "funding"}],
                [category |-> "ai & ml",
                 indicators |-> {"ai", "artificial", "intelligence"}] >>
        ELSE <<>>)

\* The last call was a process_content that ran the analysis stages to the end.
Analysed == Processed /\ raised = "none" /\ Strip(text) # ""

\* C7: the Category Refiner returns the category of the first group, e-mobility
\* first, one of whose indicators occurs in the joined keyword list, and the
\* base category when no group matches; a keyword "electric" gives e-mobility.
C7_FirstMatchingGroupWins ==
    Analysed =>
        LET keyword_str == Lower(Join(" ", content_dict["keywords"]))
            groups == RefinerGroups(processor)
            hits == {g \in 1..Len(groups) :
                        \E ind \in groups[g].indicators : Contains(ind, keyword_str)}
            base == IF base_category = PyNone THEN "general" ELSE base_category
        IN  /\ hits = {} => content_dict["category"] = base
            /\ \A g \in hits :
                  (\A h \in hits : g <= h) => content_dict["category"] = groups[g].category
            /\ (\E k \in 1..Len(content_dict["keywords"]) : content_dict["keywords"][k] = "electric")
                  => content_dict["category"] = "e-mobility"

C7_Witness ==
    /\ Analysed
    /\ \E k \in 1..Len(content_dict["keywords"]) : content_dict["keywords"][k] = "electric"
    /\ \E k \in 1..Len(content_dict["keywords"]) : content_dict["keywords"][k] = "automation"
    /\ content_dict["category"] = "e-mobility"

\* C8: a record process_content returned has at most 10 keywords and at most
\* 5 themes, and neither list repeats an entry.
C8_KeywordsAndThemesBounded ==
    (Processed /\ raised = "none") =>
        /\ Len(content_dict["keywords"]) <= 10
        /\ Len(content_dict["themes"]) <= 5
        /\ ~HasDuplicates(content_dict["keywords"])
        /\ ~HasDuplicates(content_dict["themes"])

C8_Witness ==
    /\ Analysed
    /\ Len(Distinct(FilteredWords(text))) > 10
    /\ Len(content_dict["keywords"]) = 10
    /\ Len(content_dict["themes"]) = 5

\* C9: process_content on a record whose content is empty or whitespace-only
\* returns (NLTK itself working), with no keywords, no themes, sentiment
\* neutral and an empty cleaned text, in both processors.
C9_BlankContentIsNotAnError ==
    (Processed /\ Strip(content_dict["content"]) = "" /\ raised # "LookupError") =>
        /\ raised = "none"
        /\ content_dict["keywords"] = <<>>
        /\ content_dict["themes"] = <<>>
        /\ content_dict["sentiment"] = "neutral"
        /\ Strip(text) = ""
        /\ Get(content_dict, "cleaned_content", "") = ""

\* The Cleaner's call failed: the request raised, the message had no
\* content, or the reply decodes to something that holds no cleaned text.
CleanerFailed(r) ==
    \/ r.api = "error"
    \/ r.api = "ok" /\ r.content = PyNone
    \/ /\ r.api = "ok"
       /\ r.content # PyNone
       /\ LET j == json_loads(Strip(r.content))
          IN  j.decoded /\ (~j.is_dict \/ Get(j.value, "cleaned_content", "") = PyNone)

\* C10: when the Cleaner's call fails, the failure does not come out of
\* process_content and the analysis runs on the record's original content.
C10_CleanerFailureFallsBack ==
    (Processed /\ use_llm /\ CleanerFailed(response)) =>
        /\ raised # "AttributeError"
        /\ text = content_dict["content"]

\* The categories the Category Refiner of either processor can return in
\* place of the base category.
RefinerCategories(p) ==
    {RefinerGroups(p)[g].category : g \in 1..Len(RefinerGroups(p))}

\* C11: process_content on a record that has no category field completes
\* (NLTK working, the Cleaner's reply usable) and returns a record whose
\* category is general or the Category Refiner's override of it.
C11_MissingCategoryIsGeneral ==
    (/\ Processed
     /\ base_category = PyNone
     /\ raised \notin {"LookupError", "AttributeError"}) =>
        /\ raised = "none"
        /\ "category" \in DOMAIN content_dict
        /\ content_dict["category"] \in {"general"} \cup RefinerCategories(processor)

\* The words the Token Pipeline gives for the analysed text.
TokenStream == FilteredWords(text)

\* The position at which word w is first met in stream ts.
FirstSeen(ts, w) == CHOOSE i \in 1..Len(ts) : ts[i] = w /\ \A j \in 1..(i - 1) : ts[j] # w

\* C12: the keywords are the first 10 distinct tokens of the token stream
\* ranked by descending count, tokens of equal count in the order of their
\* first appearance.
C12_KeywordsRankedByCountThenFirstSeen ==
    Analysed =>
        LET kw == content_dict["keywords"]
            ts == TokenStream
            tokens == {ts[i] : i \in 1..Len(ts)}
            listed == {kw[i] : i \in 1..Len(kw)}
            count == [w \in tokens |-> Count(ts, w)]
            first == [w \in tokens |-> FirstSeen(ts, w)]
            RanksBefore(v, w) ==
                \/ count[v] > count[w]
                \/ count[v] = count[w] /\ first[v] < first[w]
        IN  /\ listed \subseteq tokens
            /\ Len(kw) = (IF Cardinality(tokens) < 10 THEN Cardinality(tokens) ELSE 10)
            /\ \A i, j \in 1..Len(kw) : i < j => RanksBefore(kw[i], kw[j])
            /\ \A w \in tokens \ listed : \A i \in 1..Len(kw) : RanksBefore(kw[i], w)

\* A word met later comes first on its count, words of equal count keep the
\* order of the stream, and an eleventh word is cut.
C12_Witness ==
    /\ Analysed
    /\ Len(content_dict["keywords"]) = 10
    /\ Len(Distinct(TokenStream)) > 10
    /\ content_dict["keywords"][1] = "bee"
    /\ content_dict["keywords"][2] = "ant"
    /\ TokenStream[1] = "ant"

\* C13: the sentiment is positive, negative or neutral as the number of
\* distinct filtered tokens in the positive lexicon is greater than, smaller
\* than or equal to the number in the negative lexicon; occurrences beyond
\* the first do not count.
C13_SentimentComparesDistinctCounts ==
    Analysed =>
        LET ts == TokenStream
            tokens == {ts[i] : i \in 1..Len(ts)}
            pos == Cardinality(tokens \cap (IF processor = "llm" THEN positive_words_llm
                                                                 ELSE positive_words_plain))
            neg == Cardinality(tokens \cap (IF processor = "llm" THEN negative_words_llm
                                                                 ELSE negative_words_plain))
        IN  /\ content_dict["sentiment"] = "positive" <=> pos > neg
            /\ content_dict["sentiment"] = "negative" <=> pos < neg
            /\ content_dict["sentiment"] = "neutral" <=> pos = neg

\* "good" occurs twice and "bad" once, and the label is neutral.
C13_Witness ==
    /\ Analysed
    /\ Count(TokenStream, "good") = 2
    /\ Count(TokenStream, "bad") = 1
    /\ content_dict["sentiment"] = "neutral"

\* The last call was the stage method of this name, and NLTK lacked nothing.
StageDone(name) == op = name /\ raised = "none" /\ nltk = "none"

\* C14: the Text Normalizer is idempotent: normalizing a text it has
\* returned gives that text again.
C14_NormalizerIdempotent ==
    StageDone("_basic_text_cleaning") =>
        basic_text_cleaning(content_dict["content"]) = content_dict["content"]

\* The characters of s that are not white space, in their order.
NonSpace(s) == Join("", split(s))

RECURSIVE WordRuns(_, _)
\* The maximal runs of word characters of s from position i on.
WordRuns(s, i) ==
    LET starts == {p \in i..Len(s) : CharAt(s, p) \in WordChars}
    IN  IF starts = {} THEN <<>>
        ELSE LET a == Least(starts)
                 e == ClassRunEnd(s, a, WordChars)
             IN  <<SubSeq(s, a, e)>> \o WordRuns(s, e + 1)

\* The boilerplate words and word sequences the Noise Filter removes.
BoilerplatePhrases ==
    {<<"menu">>, <<"navigation">>, <<"nav">>, <<"header">>, <<"footer">>, <<"sidebar">>,
     <<"advertisement">>, <<"ad">>, <<"banner">>, <<"copyright">>,
     <<"privacy", "policy">>, <<"terms", "of", "service">>, <<"contact", "us">>,
     <<"about", "us">>, <<"sign", "in">>, <<"log", "in">>, <<"sign", "up">>,
     <<"register">>, <<"newsletter">>, <<"subscribe">>}

\* s holds one of the boilerplate words or word sequences, in any letter case.
HasBoilerplate(s) ==
    LET words == WordRuns(Lower(s), 1)
    IN  \E phrase \in BoilerplatePhrases : \E i \in 1..Len(words) :
            /\ i + Len(phrase) - 1 <= Len(words)
            /\ SubSeq(words, i, i + Len(phrase) - 1) = phrase

\* s holds what a URL, an e-mail address or a phone number begins with or
\* must hold: "http", an @, or three digits in a row.
HasAddress(s) ==
    \/ Contains("http", s)
    \/ Contains("@", s)
    \/ \E i \in 1..(Len(s) - 2) : AllDigits(s, i, i + 2)

\* C15 as stated: on a text with no URL, e-mail address or phone number the
\* Noise Filter changes white space only.
C15_Original ==
    (StageDone("_remove_irrelevant_content") /\ ~HasAddress(before)) =>
        NonSpace(content_dict["content"]) = NonSpace(before)

\* C15, amended: on a text with no URL, e-mail address or phone number and
\* none of the boilerplate words or word sequences, the Noise Filter changes
\* white space only.
C15_NoiseFilterKeepsCleanText ==
    (StageDone("_remove_irrelevant_content") /\ ~HasAddress(before) /\ ~HasBoilerplate(before)) =>
        NonSpace(content_dict["content"]) = NonSpace(before)

\* The filter was given such a text with white space to collapse.
C15_Witness ==
    /\ StageDone("_remove_irrelevant_content")
    /\ ~HasAddress(before)
    /\ ~HasBoilerplate(before)
    /\ before # ""
    /\ content_dict["content"] # before
    /\ NonSpace(content_dict["content"]) = NonSpace(before)

\* s holds a match of the phone number expression.
HasPhonePattern(s) == \E p \in 1..Len(s) : PhoneEnd(s, p) > 0

\* C16: on the end-to-end text, with NLTK lacking nothing, the Noise
\* Filter's result holds neither the e-mail address nor the phone number, the
\* record the cleaning chain gives is categorized e-mobility, and the cleaned
\* text holds no @ and no phone number.
C16_EndToEndScenario ==
    (raw = EndToEndText /\ nltk = "none") =>
        /\ StageDone("_remove_irrelevant_content") =>
              /\ ~Contains("info@x.com", content_dict["content"])
              /\ ~Contains("555-123-4567", content_dict["content"])
        /\ op = "categorize_content" =>
              content_dict["category"] = "e-mobility"
        /\ (op \in {"_clean_and_filter_content", "categorize_content"} /\ raised = "none") =>
              /\ ~Contains("@", content_dict["content"])
              /\ ~HasPhonePattern(content_dict["content"])

\* Some token of the sentence has a tag that begins with prefix.
HasTag(sentence, prefix) ==
    LET words == word_tokenize(Lower(sentence))
    IN  \E i \in 1..Len(words) : StartsWith(TagOf(words[i]), prefix)

\* C19: a sentence of the text handed to the Coherence Filter is in the
\* filter's result if and only if it has between 10 and 500 characters, a
\* token tagged as a noun and a token tagged as a verb.
C19_CoherenceAcceptsNounAndVerb ==
    StageDone("_grammar_and_coherence_filter") =>
        LET sentences == Stripped(sent_tokenize(before))
        IN  \A i \in 1..Len(sentences) :
                Contains(sentences[i], content_dict["content"])
                <=> /\ Len(sentences[i]) >= 10
                    /\ Len(sentences[i]) <= 500
                    /\ HasTag(sentences[i], "NN")
                    /\ HasTag(sentences[i], "VB")

\* The keyword phrases of the sector of this name, in the Scorer's table and
\* in the Context Filter's.
KeywordPhrases(name) ==
    UNION {UNION {{t[i].keywords[k] : k \in 1..Len(t[i].keywords)} :
                     i \in {j \in 1..Len(t) : t[j].name = name}} :
              t \in {sectors, sector_contexts}}

\* C20: when the Sector Scorer assigns the record handed to the Sector
\* Context Filter a sector other than general, every sentence of the
\* filter's result holds a keyword phrase of that sector as a substring;
\* when it assigns general, the result is the text handed in.
C20_ContextFilterFollowsScorer ==
    StageDone("_sector_context_filter") =>
        LET record == [content_dict EXCEPT !["content"] = before]
            assigned == AssignSector(SectorScores(record))
            sentences == sent_tokenize(content_dict["content"])
        IN  IF assigned = "general" THEN content_dict["content"] = before
            ELSE \A i \in 1..Len(sentences) :
                    \E keyword \in KeywordPhrases(assigned) :
                        Contains(keyword, Lower(sentences[i]))

\* C17: the Draft Store is first in, first out.  Of the drafts loaded and
\* added since the queue was last cleared, in the order of their loading and
\* adding, get_next_draft has returned the first ones in that order, each
\* addition once, the queue holds the rest, and queue_size is the number of
\* those added less the number of those returned.
C17_DraftStoreIsFifo ==
    /\ Len(returned) <= Len(added)
    /\ returned = SubSeq(added, 1, Len(returned))
    /\ queue = SubSeq(added, Len(returned) + 1, Len(added))
    /\ queue_size(queue) = Len(added) - Len(returned)

\* A loaded draft and then an added one have been returned, and the queue is
\* empty again.
C17_Witness ==
    /\ op = "get_next_draft"
    /\ loaded = 1
    /\ returned = <<1, 2>>
    /\ next_draft = 2
    /\ queue_size(queue) = 0

\* C18: in a store that began empty, every draft in the queue and every
\* draft in the queue file has status pending, and the draft get_next_draft
\* has just returned has status retrieved.
C18_StatusPendingOrRetrieved ==
    loaded = 0 =>
        /\ \A i \in 1..Len(queue) : heap[queue[i]].status = "pending"
        /\ \A i \in 1..Len(queue_file.drafts) : queue_file.drafts[i].status = "pending"
        /\ (op = "get_next_draft" /\ next_draft # NoDraft) =>
              heap[next_draft].status = "retrieved"

\* c occurs in s at least n times in a row.
HasRun(s, c, n) ==
    \E i \in 1..(Len(s) - n + 1) : \A j \in i..(i + n - 1) : CharAt(s, j) = c

\* C26: what the Text Normalizer returns has no two white space characters
\* in a row, no curly quote and no curly apostrophe, no four periods in a
\* row, and no two exclamation marks and no two question marks in a row.
C26_NormalizerOutputForm ==
    StageDone("_basic_text_cleaning") =>
        LET out == content_dict["content"]
        IN  /\ \A i \in 1..(Len(out) - 1) :
                   ~(CharAt(out, i) \in SpaceChars /\ CharAt(out, i + 1) \in SpaceChars)
            /\ \A i \in 1..Len(out) : CharAt(out, i) \notin CurlyQuotes
            /\ ~HasRun(out, ".", 4)
            /\ ~HasRun(out, "!", 2)
            /\ ~HasRun(out, "?", 2)

\* A sentence as the Deduplicator compares it: lowered and trimmed.
Normalized(sentence) == Strip(Lower(sentence))

\* The members of the sequence at the places of the set, in their order.
AtPlaces(seq, places) ==
    [k \in 1..Cardinality(places) |->
        seq[CHOOSE i \in places : Cardinality({j \in places : j <= i}) = k]]

\* C23: the sentences of what the Deduplicator returns are the sentences of
\* the text handed in that are longer than 10 characters once normalized and
\* are the first with their normalized text, in the order they had; no two
\* of them are equal once normalized and none has 10 characters or less.
C23_DeduplicatorKeepsFirstOccurrences ==
    StageDone("_final_polish") =>
        LET given == sent_tokenize(before)
            out == sent_tokenize(content_dict["content"])
            first == {i \in 1..Len(given) :
                         /\ Len(Normalized(given[i])) > MinUniqueLen
                         /\ \A j \in 1..(i - 1) : Normalized(given[j]) # Normalized(given[i])}
        IN  /\ out = AtPlaces(given, first)
            /\ \A i, j \in 1..Len(out) : i # j => Normalized(out[i]) # Normalized(out[j])
            /\ \A i \in 1..Len(out) : Len(Normalized(out[i])) > MinUniqueLen

\* How often the phrase occurs in s with a word boundary before it and one
\* behind it.  No phrase of the table can overlap itself.
DelimitedOccurrences(phrase, s) ==
    Cardinality({p \in 1..Len(s) :
                    /\ p + Len(phrase) - 1 <= Len(s)
                    /\ SubSeq(s, p, p + Len(phrase) - 1) = phrase
                    /\ IsWordAt(s, p - 1) # IsWordAt(s, p)
                    /\ IsWordAt(s, p + Len(phrase) - 1) # IsWordAt(s, p + Len(phrase))})

RECURSIVE SumOccurrences(_, _)
SumOccurrences(phrases, s) ==
    IF phrases = <<>> THEN 0
    ELSE DelimitedOccurrences(Head(phrases), s) + SumOccurrences(Tail(phrases), s)

\* C22: each sector's score is the sum over its keyword phrases of the
\* phrase's delimited occurrences in the lowered title, a space and the
\* lowered content; and a text with "electric vehicle" once, "battery" once
\* and no other keyword scores 2 for e-mobility and is assigned e-mobility.
C22_ScoreCountsDelimitedOccurrences ==
    Categorized =>
        LET s == Lower(content_dict["title"]) \o " " \o Lower(content_dict["content"])
            claimed == [i \in 1..Len(sectors) |-> SumOccurrences(sectors[i].keywords, s)]
        IN  /\ scores = claimed
            /\ (/\ DelimitedOccurrences("electric vehicle", s) = 1
                /\ DelimitedOccurrences("battery", s) = 1
                /\ claimed[1] = 2
                /\ \A i \in 2..Len(sectors) : claimed[i] = 0)
               => (scores[1] = 2 /\ content_dict["category"] = "e-mobility")

\* The tokens of the lowered text analysed.
SourceTokens == word_tokenize(Lower(text))

\* A token the pipeline keeps: alphanumeric, no stopword, 3 characters or more.
Survives(token) == IsAlnum(token) /\ token \notin stop_words /\ Len(token) >= 3

\* The places of the tokens the pipeline keeps.
Survivors_C24 == {i \in 1..Len(SourceTokens) : Survives(SourceTokens[i])}

\* C24: the keywords are counted over the lemmas of the alphanumeric tokens
\* of the lowered text that are no stopwords and have at least 3 characters,
\* in their order and with their repetitions; so every keyword is the lemma
\* of such a token.
C24_TokenPipeline ==
    Analysed =>
        \A survivors \in {SelectSeq(SourceTokens, Survives)} :
            \A lemmas \in {[k \in 1..Len(survivors) |-> lemmatize(survivors[k])]} :
                /\ content_dict["keywords"] = most_common(lemmas, TopKeywords)
                /\ \A k \in 1..Len(content_dict["keywords"]) :
                       \E i \in 1..Len(survivors) :
                           lemmatize(survivors[i]) = content_dict["keywords"][k]

\* The text analysed had a token that is not alphanumeric, a stopword, a
\* short word that is no stopword, a word whose lemma is another word, and a
\* word met twice; and it gave keywords.
C24_Witness ==
    /\ Analysed
    /\ content_dict["keywords"] # <<>>
    /\ \E i \in 1..Len(SourceTokens) : ~IsAlnum(SourceTokens[i])
    /\ \E i \in 1..Len(SourceTokens) : SourceTokens[i] \in stop_words
    /\ \E i \in 1..Len(SourceTokens) :
           /\ IsAlnum(SourceTokens[i])
           /\ SourceTokens[i] \notin stop_words
           /\ Len(SourceTokens[i]) < 3
    /\ \E i \in Survivors_C24 : lemmatize(SourceTokens[i]) # SourceTokens[i]
    /\ \E i, j \in Survivors_C24 : i # j /\ SourceTokens[i] = SourceTokens[j]

\* A token the Theme Extractor keeps: alphanumeric and no stopword.
IsThemeWord(token) == IsAlnum(token) /\ token \notin stop_words

\* The pairs of words that are neighbours in the sentence once the other
\* tokens are dropped, as the strings "first second", in their order.
PairsIn(sentence) ==
    LET ws == SelectSeq(word_tokenize(Lower(sentence)), IsThemeWord)
    IN  [i \in 1..(Len(ws) - 1) |-> ws[i] \o " " \o ws[i + 1]]

RECURSIVE PairStream(_)
\* The pairs of the sentences, sentence after sentence.
PairStream(sentences) ==
    IF sentences = <<>> THEN <<>>
    ELSE PairStream(SubSeq(sentences, 1, Len(sentences) - 1))
         \o PairsIn(sentences[Len(sentences)])

\* C25: every theme is a pair of words that are neighbours within one
\* sentence of the text analysed once stopwords and tokens that are not
\* alphanumeric are dropped; the themes are the first 5 distinct pairs
\* ranked by descending count over all sentences, pairs of equal count in
\* the order of their first appearance.
C25_ThemesArePairsWithinSentences ==
    Analysed =>
        \A ps \in {PairStream(sent_tokenize(text))} :
            LET th == content_dict["themes"]
                pairs == {ps[i] : i \in 1..Len(ps)}
                listed == {th[i] : i \in 1..Len(th)}
                count == [w \in pairs |-> Count(ps, w)]
                first == [w \in pairs |-> FirstSeen(ps, w)]
                RanksBefore(v, w) ==
                    \/ count[v] > count[w]
                    \/ count[v] = count[w] /\ first[v] < first[w]
            IN  /\ listed \subseteq pairs
                /\ Len(th) = (IF Cardinality(pairs) < 5 THEN Cardinality(pairs) ELSE 5)
                /\ \A i, j \in 1..Len(th) : i < j => RanksBefore(th[i], th[j])
                /\ \A w \in pairs \ listed : \A i \in 1..Len(th) : RanksBefore(th[i], w)

\* The text has two sentences whose pairs are the same three, each met
\* twice; the last word of the first sentence and the first word of the
\* second are no theme.
C25_Witness ==
    /\ Analysed
    /\ Len(sent_tokenize(text)) = 2
    /\ content_dict["themes"] = <<"bad policy", "policy supports", "supports automation">>

\* C27: after an add_draft, a get_next_draft on a queue that held a draft,
\* or a clear_queue whose save succeeded, the file holds the drafts of the
\* queue in the queue's order; a QueueManager constructed on a file starts
\* with the drafts the file holds in the file's order, and with none when
\* the file cannot be loaded.
C27_FileHoldsQueue ==
    /\ (/\ op \in {"add_draft", "get_next_draft", "clear_queue"}
        /\ last_save = "written")
       => /\ queue_file.kind = "json"
          /\ queue_file.drafts = [i \in 1..Len(queue) |-> heap[queue[i]]]
          /\ load_queue(queue_file) = [i \in 1..Len(queue) |-> heap[queue[i]]]
    /\ op = "__init__"
       => /\ Len(queue) = (IF queue_file.kind = "json" THEN Len(queue_file.drafts) ELSE 0)
          /\ \A i \in 1..Len(queue) : heap[queue[i]] = queue_file.drafts[i]

\* get_next_draft took a draft from two, its save succeeded, and the file
\* holds the one left.
C27_Witness ==
    /\ op = "get_next_draft"
    /\ last_save = "written"
    /\ next_draft # NoDraft
    /\ Len(queue) = 1
    /\ queue_file.drafts = <<heap[queue[1]]>>

\* C28: get_next_draft on an empty queue returns None and leaves queue and
\* file as they are; peek_next_draft, queue_size and list_queue leave the
\* queue, the file and every draft as they are; and a get_next_draft right
\* after a peek_next_draft returns the draft the peek returned.
C28_ReadsChangeNothing ==
    [][/\ (op' = "get_next_draft" /\ queue = <<>>)
          => (next_draft' = NoDraft /\ UNCHANGED <<queue, queue_file, heap>>)
       /\ op' \in {"peek_next_draft", "queue_size", "list_queue"}
          => UNCHANGED <<queue, queue_file, heap>>
       /\ (op = "peek_next_draft" /\ op' = "get_next_draft")
          => next_draft' = answer]_vars

\* peek_next_draft has returned the first of two different drafts.
C28_Witness ==
    /\ op = "peek_next_draft"
    /\ Len(queue) = 2
    /\ queue[1] # queue[2]
    /\ answer = queue[1]


AllRequestErrors(outcomes) ==
    \A k \in 1..Len(outcomes) : outcomes[k] = "RequestException"

\* What the attempts made on one URL allow scrape_url to have returned.
ReturnFollowsAttempts(i) ==
    LET outcomes == fetched[i]
        n == Len(outcomes)
    IN  /\ n <= max_retries
        /\ AllRequestErrors(SubSeq(outcomes, 1, n - 1))
        /\ IF scraped[i] = StillScraping
           THEN /\ i >= url_index
                /\ AllRequestErrors(outcomes)
                /\ n = (IF i = url_index THEN attempt ELSE 0)
                /\ n < max_retries \/ max_retries = 0
           ELSE /\ i < url_index
                /\ \/ n = 0 /\ max_retries = 0 /\ scraped[i] = ScrapedNone
                   \/ n > 0 /\ outcomes[n] = "return" /\ scraped[i] = ScrapedPage(urls[i])
                   \/ n > 0 /\ outcomes[n] = "Exception" /\ scraped[i] = ScrapedNone
                   \/ n = max_retries /\ n > 0 /\ outcomes[n] = "RequestException"
                      /\ scraped[i] = ScrapedNone

ScrapeDone == ~Scraping

\* C29: scrape_url ends with a record or None after at most max_retries
\* attempts: only a request error is followed by another attempt, the last
\* request error and any other exception give None, the first success gives
\* the record; scrape_multiple_urls' results are the records of the URLs that
\* succeeded, in URL order; and every call ends.
C29_ScrapeEndsWithinRetries ==
    /\ [](/\ \A i \in 1..Len(urls) : ReturnFollowsAttempts(i)
          /\ entry = "scrape_multiple_urls"
             => results = SelectSeq(SubSeq(scraped, 1, url_index - 1), Truthy))
    /\ <>ScrapeDone

C29_Witness ==
    /\ entry = "scrape_multiple_urls"
    /\ ScrapeDone
    /\ Len(urls) = 2
    /\ fetched[1] = <<"RequestException", "RequestException", "RequestException">>
    /\ fetched[2] = <<"RequestException", "return">>
    /\ results = <<ScrapedPage(urls[2])>>


\* What the claim says of a dict generate_draft returned.
WithinLimits(d) ==
    /\ Len(d.draft) <= 3000
    /\ d.character_count = Len(d.draft)
    /\ Len(d.hashtags) <= 8

\* The draft was written from this record: it opens with the record's hook
\* and carries its category.
WrittenFrom(d, content) ==
    /\ d.category = Get(content, "category", "general")
    /\ StartsWith(d.draft, Hook(Title(Replace(d.category, "-", " ")),
                                Get(content, "sentiment", "neutral")))

IsErrorPlaceholder(d) ==
    d.draft = "Error generating draft" /\ d.hashtags = <<>> /\ d.character_count = 0

\* C30: a draft generate_draft returns has at most 3000 characters, its
\* character_count is the length of its text and it has at most 8 hashtags;
\* batch_generate returns one dict for each record, in the records' order: the
\* error placeholder where generation raises, the record's draft elsewhere.
C30_DraftsWithinLimits ==
    /\ (op = "generate_draft" /\ raised = "none")
       => WithinLimits(last_draft) /\ WrittenFrom(last_draft, content_dict)
    /\ op = "batch_generate"
       => /\ Len(batch_drafts) = Len(processed_content_list)
          /\ \A i \in 1..Len(batch_drafts) :
                IF GenerateDraftRaises(processed_content_list[i])
                THEN IsErrorPlaceholder(batch_drafts[i])
                ELSE WithinLimits(batch_drafts[i]) /\ WrittenFrom(batch_drafts[i], processed_content_list[i])

\* The long record's draft was cut, and the record behind it raised.
C30_Witness ==
    /\ op = "batch_generate"
    /\ processed_content_list = <<LongProcessed, NoneCategory>>
    /\ EndsWith(batch_drafts[1].draft, "...")
    /\ batch_drafts[1].character_count > 2900
    /\ IsErrorPlaceholder(batch_drafts[2])


\* C21: the stages run on one record in the order Normalizer, Noise Filter,
\* Coherence Filter, Sector Scorer, Sector Context Filter, Deduplicator, and
\* then the processor's stages with the Category Refiner last.  So once the
\* Sector Context Filter and the Deduplicator have run on a record's text, as
\* they have when _clean_and_filter_content has returned for a text that is
\* not empty, the Sector Scorer has assigned the record its category.
C21_ScorerRunsBeforeContextFilter ==
    (op = "_clean_and_filter_content" /\ raised = "none" /\ before # "")
        => "category" \in DOMAIN content_dict

====
